---- MODULE Spec2Model ----
(***************************************************************************)
(* State-machine model of the submission / poll / verify protocol layer of *)
(* go-webext: the Edge store (internal/edge/edge.go), the Firefox store    *)
(* (firefox.go, API-based generation) and the Chrome publish operations.   *)
(*                                                                         *)
(* One behaviour of the model is one invocation of one verb.  Blocking     *)
(* functions are split at their suspension points (HTTP round trip, sleep) *)
(* so that the clock can advance between the steps.  Time is counted in    *)
(* ticks; the retry interval and the maximum-await time are scaled down.   *)
(***************************************************************************)
EXTENDS Integers, Sequences, FiniteSets, TLC

(***************************************************************************)
(* Bounds of the model.                                                    *)
(***************************************************************************)
\* ticks of one retry interval (5s in the source)
RetryTicks == 2
\* ticks of the maximum-await time (1min for Edge, 20min for Firefox)
AwaitTicks == 4
\* longest duration of one status round trip, in ticks
MaxQueryDur == 1
\* cap on the status queries of one polling loop
MaxQueries == 5

VARIABLES
    verb,        \* the operation this invocation runs
    args,        \* the caller's arguments
    pc,          \* position of the single thread of control
    now,         \* wall clock, in ticks
    startTime,   \* the startTime local of the running polling loop
    calls,       \* backend calls issued so far, in order
    polls,       \* per polling loop: the status queries and their replies
    sleeps,      \* per polling loop: number of time.Sleep calls
    loopState,   \* per polling loop: "idle", "running" or how it returned
    loopEntered, \* per polling loop: the clock when the loop was entered
    loopLeft,    \* per polling loop: the clock when the loop returned
    handle,      \* locals obtained so far (operationID, UUID, versionID, access token)
    files,       \* per file the verb may open: the state of its handle
    wire,        \* HTTP requests built so far: token exchanges and API requests
    result       \* what the verb returned

vars == <<verb, args, pc, now, startTime, calls, polls, sleeps, loopState,
          loopEntered, loopLeft, handle, files, wire, result>>

Null == "null"

Loops == {"edge", "validation", "signing"}

(***************************************************************************)
(* Errors.  The source returns formatted strings; an error value records   *)
(* the step that failed, a kind and the backend data that the format       *)
(* string embeds.                                                          *)
(***************************************************************************)
\* carries names the backend fields that the formatted message embeds
ErrData(carries, message, errors, url) ==
    [carries |-> carries, message |-> message, errors |-> errors, url |-> url]

NoData == ErrData({}, "", <<>>, "")

\* a status query whose response has not arrived yet
NoReply == [kind |-> "none"]

Err(step, kind, data) == [step |-> step, kind |-> kind, data |-> data]

NoErr == Err("", "", NoData)

NoValue == [Status |-> 0, Message |-> "", Errors |-> <<>>]

Returned(status, err, value) == [status |-> status, err |-> err, value |-> value]

NotReturned == Returned("none", NoErr, NoValue)

Ok(value) == Returned("ok", NoErr, value)

Fail(step, kind, data) == Returned("err", Err(step, kind, data), NoValue)

\* a backend call: the operation, its key argument, what the backend
\* answered (empty for a status query, whose reply is kept in polls) and
\* the clock when it was issued
Call(op, arg, ret) == [op |-> op, arg |-> arg, ret |-> ret, at |-> now]

\* the ret of a status query of a polling loop
InPolls == "<polls>"

OkErr(ok) == IF ok THEN "ok" ELSE "err"

CallsOf(op) == {i \in 1..Len(calls) : calls[i].op = op}

Last(s) == s[Len(s)]

(***************************************************************************)
(* File handles.  A handle is "unopened", "open" (os.Open or os.Create     *)
(* returned it and no Close is registered), "deferred" (open, with a       *)
(* deferred Close registered in the enclosing function) or "closed".       *)
(***************************************************************************)
FileRoles == {"package", "source", "output"}

\* the deferred Close calls run when the enclosing function returns, that
\* is when the verb reaches position p = "done"
RunDefers(fs, p) ==
    IF p = "done"
    THEN [f \in FileRoles |-> IF fs[f] = "deferred" THEN "closed" ELSE fs[f]]
    ELSE fs

\* os.Open / os.Create of file f succeeded; how says whether a Close was
\* deferred
Opened(fs, f, how) == [fs EXCEPT ![f] = how]

(***************************************************************************)
(* Requests and their authorization headers.  A request is the operation   *)
(* it addresses (method and URL) and the headers added to it, in the order *)
(* of the Header.Add calls.  A header is its name, the scheme of its value *)
(* and the credential that follows the scheme.                             *)
(***************************************************************************)
NoCredential == [token |-> 0, key |-> "", iss |-> "", iat |-> 0, exp |-> 0, secret |-> ""]

Header(name, scheme, cred) == [name |-> name, scheme |-> scheme, cred |-> cred]

\* http.NewRequest
NewRequest(op) == [op |-> op, headers |-> <<>>]

\* req.Header.Add
HeaderAdd(req, h) == [req EXCEPT !.headers = Append(@, h)]

\* how the token endpoint answers a well-formed request during one
\* invocation: with a token, with a JSON error body under a 4xx code, or
\* with a JSON body that has no access_token member
TokenEndpoints == {"issuing", "rejecting", "tokenless"}

NoTokenReply == [kind |-> "none", status |-> 0, body |-> ""]

\* what may happen to one token request: it cannot be sent, it is answered
\* with a body that is not JSON (under 200 or under an error code), or the
\* endpoint answers as it does for this invocation
TokenReplies ==
    {[kind |-> "sendErr", status |-> 0, body |-> ""],
     [kind |-> "answer", status |-> 200, body |-> "notJSON"],
     [kind |-> "answer", status |-> 500, body |-> "notJSON"],
     CASE args.tokenEndpoint = "issuing" -> [kind |-> "answer", status |-> 200, body |-> "token"]
       [] args.tokenEndpoint = "rejecting" -> [kind |-> "answer", status |-> 400, body |-> "noToken"]
       [] OTHER -> [kind |-> "answer", status |-> 200, body |-> "noToken"]}

\* the entries of wire
TokenEntry(op, reply, a) ==
    [kind |-> "token", op |-> op, reply |-> reply, ok |-> a.ok, token |-> a.token,
     headers |-> <<>>, at |-> now]

ApiEntry(req) ==
    [kind |-> "api", op |-> req.op, reply |-> NoTokenReply, ok |-> TRUE, token |-> 0,
     headers |-> req.headers, at |-> now]

TokenEntries(w) == {i \in 1..Len(w) : w[i].kind = "token"}
ApiEntries(w) == {i \in 1..Len(w) : w[i].kind = "api"}

\* the token the endpoint issues next: a new one at every exchange; 0 stands
\* for the empty string
FreshToken == Cardinality(TokenEntries(wire)) + 1

(***************************************************************************)
(* Edge: the two client configurations.                                    *)
(***************************************************************************)
APIVersionV1 == "v1"
APIVersionV1_1 == "v1.1"

EdgeClientID == "edge-client"
EdgeAPIKey == "edge-key"

\* V1Config.authorize: the status code of the answer is not looked at; a
\* JSON body without access_token decodes to the empty token
authorize(reply, fresh) ==
    IF reply.kind = "sendErr" \/ reply.body = "notJSON"
    THEN [ok |-> FALSE, token |-> 0]
    ELSE [ok |-> TRUE, token |-> IF reply.body = "token" THEN fresh ELSE 0]

\* a bug: the token of an earlier exchange is kept and sent again
V1SetRequestHeadersCached(req, reply, fresh) ==
    LET a == authorize(reply, fresh)
        had == {i \in TokenEntries(wire) : wire[i].ok}
    IN  IF had # {}
        THEN [ok |-> TRUE,
              exchange |-> <<>>,
              req |-> HeaderAdd(req, Header("Authorization", "Bearer",
                          [NoCredential EXCEPT !.token = wire[CHOOSE i \in had : TRUE].token]))]
        ELSE [ok |-> a.ok,
              exchange |-> <<TokenEntry("authorize", reply, a)>>,
              req |-> IF a.ok
                      THEN HeaderAdd(req, Header("Authorization", "Bearer",
                                                 [NoCredential EXCEPT !.token = a.token]))
                      ELSE req]

\* V1Config.SetRequestHeaders: one token exchange, then the Bearer header
V1SetRequestHeaders(req, reply, fresh) ==
    LET a == authorize(reply, fresh)
    IN  [ok |-> a.ok,
         exchange |-> <<TokenEntry("authorize", reply, a)>>,
         req |-> IF a.ok
                 THEN HeaderAdd(req, Header("Authorization", "Bearer",
                                            [NoCredential EXCEPT !.token = a.token]))
                 ELSE req]

\* a bug: the static key is sent after a token exchange that may fail
V1_1SetRequestHeadersExchanges(req, reply, fresh) ==
    LET a == authorize(reply, fresh)
    IN  [ok |-> a.ok,
         exchange |-> <<TokenEntry("authorize", reply, a)>>,
         req |-> HeaderAdd(HeaderAdd(req, Header("Authorization", "ApiKey",
                                                 [NoCredential EXCEPT !.key = EdgeAPIKey])),
                           Header("X-ClientID", "", [NoCredential EXCEPT !.key = EdgeClientID]))]

\* V1_1Config.SetRequestHeaders: the two static headers, no request made
V1_1SetRequestHeaders(req, reply, fresh) ==
    [ok |-> TRUE,
     exchange |-> <<>>,
     req |-> HeaderAdd(HeaderAdd(req, Header("Authorization", "ApiKey",
                                             [NoCredential EXCEPT !.key = EdgeAPIKey])),
                       Header("X-ClientID", "", [NoCredential EXCEPT !.key = EdgeClientID]))]

\* Client.setRequestHeaders: the configured generation attaches the auth
setRequestHeaders(req, reply, fresh) ==
    IF args.edgeGen = APIVersionV1
    THEN V1SetRequestHeaders(req, reply, fresh)
    ELSE V1_1SetRequestHeaders(req, reply, fresh)

\* wire after one Edge request was built: the token exchange, if one was
\* made, then the request itself unless the headers could not be set
EdgeWire(s) == wire \o s.exchange \o (IF s.ok THEN <<ApiEntry(s.req)>> ELSE <<>>)

(***************************************************************************)
(* Edge: Status and its JSON decoding.                                     *)
(***************************************************************************)
StatusInvalid == 0
StatusInProgress == 1
StatusSucceeded == 2
StatusFailed == 3

\* Status.String
StatusString(s) ==
    CASE s = StatusInProgress -> "InProgress"
      [] s = StatusSucceeded -> "Succeeded"
      [] s = StatusFailed -> "Failed"
      [] OTHER -> "!bad_status_" \o ToString(s)

\* Status.UnmarshalJSON on the decoded JSON string
StatusUnmarshalJSON(status) ==
    CASE status = "InProgress" -> [ok |-> TRUE, val |-> StatusInProgress]
      [] status = "Succeeded" -> [ok |-> TRUE, val |-> StatusSucceeded]
      [] status = "Failed" -> [ok |-> TRUE, val |-> StatusFailed]
      [] OTHER -> [ok |-> FALSE, val |-> StatusInvalid]

\* status strings a response body may carry; Absent is a body with no
\* "status" member at all
Absent == "<absent>"
EdgeRawStatuses == {"InProgress", "Succeeded", "Failed", "Bogus", "", Absent}

EdgeMessages == {"", "m1", "timeout"}
EdgeErrorLists == {<<>>, <<"e1">>}

EdgeBodies ==
    {[status |-> s, message |-> m, errors |-> e] :
        s \in EdgeRawStatuses, m \in EdgeMessages, e \in EdgeErrorLists}

\* bodies the model enumerates: message and errors vary on Failed only
EdgeBodiesUsed ==
    {b \in EdgeBodies : b.status # "Failed" => (b.message = "" /\ b.errors = <<>>)}

\* json.Unmarshal of the body into UploadStatusResponse: a missing member
\* leaves the zero value, a present one goes through Status.UnmarshalJSON
DecodeUploadStatusResponse(body) ==
    IF body.status = Absent
    THEN [ok |-> TRUE,
          val |-> [Status |-> StatusInvalid, Message |-> body.message, Errors |-> body.errors]]
    ELSE LET u == StatusUnmarshalJSON(body.status)
         IN  [ok |-> u.ok,
              val |-> [Status |-> u.val, Message |-> body.message, Errors |-> body.errors]]

\* Store.UploadStatus returned the error of setRequestHeaders: the status
\* request was not sent
AuthErrReply == [kind |-> "authErr"]

\* outcome of Store.UploadStatus once its request is sent: no response, or a
\* response of some status code with a JSON body; an error response (code
\* 500) carries a body without a status member.  UploadStatus does not look
\* at the code.
EdgeStatusReplies ==
    {[kind |-> "sendErr"]} \cup
    {[kind |-> "body", code |-> 200, body |-> b] : b \in EdgeBodiesUsed} \cup
    {[kind |-> "body", code |-> 500, body |-> [status |-> Absent, message |-> "", errors |-> <<>>]]}

UploadStatus(reply) ==
    IF reply.kind = "sendErr"
    THEN [ok |-> FALSE, val |-> NoValue]
    ELSE DecodeUploadStatusResponse(reply.body)

(***************************************************************************)
(* Edge: Store.Update.                                                     *)
(***************************************************************************)
defaultRetryTimeout == RetryTicks
defaultWaitStatusTimeout == AwaitTicks

\* UpdateOptions after the zero-value defaults of Store.Update are applied
EdgeRetryTimeout == IF args.RetryTimeout = 0 THEN defaultRetryTimeout ELSE args.RetryTimeout
EdgeWaitStatusTimeout ==
    IF args.WaitStatusTimeout = 0 THEN defaultWaitStatusTimeout ELSE args.WaitStatusTimeout

\* a bug: a loop keeps the start time of the loop that ran before it
EnterLoopSharedStart(l) ==
    /\ startTime' = startTime
    /\ loopEntered' = [loopEntered EXCEPT ![l] = now]
    /\ loopState' = [loopState EXCEPT ![l] = "running"]
    /\ UNCHANGED loopLeft

\* entering a polling loop: startTime := time.Now()
EnterLoop(l) ==
    /\ startTime' = now
    /\ loopEntered' = [loopEntered EXCEPT ![l] = now]
    /\ loopState' = [loopState EXCEPT ![l] = "running"]
    /\ UNCHANGED loopLeft

\* a bug: the loop start is taken again after every sleep
SleepStepRestartsClock(l, d) ==
    /\ now' = now + d
    /\ sleeps' = [sleeps EXCEPT ![l] = @ + 1]
    /\ startTime' = now'

\* time.Sleep(d) inside polling loop l: the clock advances, startTime stays
SleepStep(l, d) ==
    /\ now' = now + d
    /\ sleeps' = [sleeps EXCEPT ![l] = @ + 1]
    /\ UNCHANGED startTime

\* a polling loop returns at clock t
LeaveLoop(l, how, t) ==
    /\ loopState' = [loopState EXCEPT ![l] = how]
    /\ loopLeft' = [loopLeft EXCEPT ![l] = t]

\* a bug: the elapsed time is measured from the current instant
TimedOutSinceNow(start, t, maxAwait) == t - t > maxAwait

\* time.Now().After(startTime.Add(timeout)), time.Since(startTime) > maxAwaitTime
TimedOut(start, t, maxAwait) == t - start > maxAwait

EdgeOperationIDs == {"op1", "op2"}

\* values of the Location header of a response: an operation id, or none
EdgeLocations == EdgeOperationIDs \cup {""}

\* outcomes of Store.UploadUpdate: the file cannot be opened, the headers
\* cannot be set, the request cannot be sent, or it is answered: with a code
\* other than 202, with 202, or with 202 and a body whose Close fails
EdgeUploadOutcomes ==
    {[kind |-> k, location |-> ""] : k \in {"openErr", "authErr", "sendErr"}}
    \cup {[kind |-> k, location |-> l] :
            k \in {"badStatus", "accepted", "closeErr"}, l \in EdgeLocations}

\* Store.UploadUpdate: whether the upload request reaches the server
EdgeUploadSent(o) == o.kind \in {"sendErr", "badStatus", "accepted", "closeErr"}

\* a bug: the Location header is taken whatever the status code is
EdgeUploadHandleOfAnyStatus(o) ==
    IF o.kind \in {"accepted", "badStatus"} THEN o.location ELSE ""

\* Store.UploadUpdate: the operation id, or "" on any failure
EdgeUploadHandle(o) ==
    IF o.kind = "accepted" /\ o.location # "" THEN o.location ELSE ""

ContentType(t) == Header("Content-Type", t, NoCredential)

\* Store.Update up to the start of the status loop
EdgeUpdateUpload ==
    /\ verb = "edgeUpdate"
    /\ pc = "start"
    /\ \E o \in EdgeUploadOutcomes, tr \in TokenReplies :
        LET s == setRequestHeaders(NewRequest("EdgeUploadUpdate"), tr, FreshToken)
        IN  /\ o.kind # "openErr" => (o.kind = "authErr" <=> ~s.ok)
            /\ calls' = IF EdgeUploadSent(o)
                        THEN Append(calls, Call("EdgeUploadUpdate", args.appID, o.kind))
                        ELSE calls
            /\ wire' = IF o.kind = "openErr" THEN wire
                       ELSE EdgeWire([s EXCEPT !.req = HeaderAdd(@, ContentType("application/zip"))])
            /\ files' = IF o.kind = "openErr" THEN files ELSE Opened(files, "package", "closed")
            /\ handle' = [handle EXCEPT !.location = o.location,
                                        !.operationID = EdgeUploadHandle(o)]
            /\ IF EdgeUploadHandle(o) = ""
               THEN /\ result' = Fail("UploadUpdate", o.kind, NoData)
                    /\ pc' = "done"
                    /\ UNCHANGED <<startTime, loopState, loopEntered, loopLeft>>
               ELSE /\ EnterLoop("edge")
                    /\ pc' = "edge_check"
                    /\ UNCHANGED result
    /\ UNCHANGED <<verb, args, now, polls, sleeps>>

\* top of the status loop: the timeout test, then the status request is sent
EdgeUpdateCheck ==
    /\ pc = "edge_check"
    /\ IF TimedOut(startTime, now, EdgeWaitStatusTimeout)
       THEN /\ result' = Fail("Update", "timeout", NoData)
            /\ LeaveLoop("edge", "timeout", now)
            /\ pc' = "done"
            /\ UNCHANGED <<calls, polls>>
            /\ UNCHANGED wire
       ELSE /\ Len(polls["edge"]) < MaxQueries
            /\ calls' = Append(calls, Call("EdgeUploadStatus", handle.operationID, InPolls))
            /\ \E tr \in TokenReplies :
                LET s == setRequestHeaders(NewRequest("EdgeUploadStatus"), tr, FreshToken)
                IN  /\ wire' = EdgeWire(s)
                    /\ IF s.ok
                       THEN /\ polls' = [polls EXCEPT !["edge"] =
                                            Append(@, [at |-> now, reply |-> NoReply])]
                            /\ pc' = "edge_wait"
                            /\ UNCHANGED <<result, loopState, loopLeft>>
                       ELSE /\ polls' = [polls EXCEPT !["edge"] =
                                            Append(@, [at |-> now, reply |-> AuthErrReply])]
                            /\ result' = Fail("UploadStatus", "authErr", NoData)
                            /\ LeaveLoop("edge", "error", now)
                            /\ pc' = "done"
    /\ UNCHANGED <<verb, args, now, startTime, sleeps, loopEntered, handle>>
    /\ files' = RunDefers(files, pc')

\* a bug: only InProgress and Failed are told apart, the rest re-polls
EdgeUpdateBranchNoSuccess(status) ==
    CASE status = StatusInProgress -> "sleep"
      [] status = StatusFailed -> "fail"
      [] OTHER -> "loop"

\* what the loop body does with a decoded response
EdgeUpdateBranch(status) ==
    CASE status = StatusInProgress -> "sleep"
      [] status = StatusSucceeded -> "return"
      [] status = StatusFailed -> "fail"
      [] OTHER -> "loop"

\* the status response arrives and the loop body acts on it; an answer with
\* an error code is enumerated for the first query of the loop only
EdgeUpdateReply ==
    /\ pc = "edge_wait"
    /\ \E reply \in EdgeStatusReplies, dur \in 0..MaxQueryDur :
        LET r == UploadStatus(reply)
            n == Len(polls["edge"])
            br == IF r.ok THEN EdgeUpdateBranch(r.val.Status) ELSE "error"
        IN  /\ (reply.kind = "body" /\ reply.code # 200) => n = 1
            /\ now' = now + dur
            /\ polls' = [polls EXCEPT !["edge"][n].reply = reply]
            /\ CASE br = "error" ->
                      /\ result' = Fail("UploadStatus", "statusQuery", NoData)
                      /\ LeaveLoop("edge", "error", now')
                      /\ pc' = "done"
                 [] br = "sleep" ->
                      /\ pc' = "edge_sleep"
                      /\ UNCHANGED <<result, loopState, loopLeft>>
                 [] br = "return" ->
                      /\ result' = Ok(r.val)
                      /\ LeaveLoop("edge", "ok", now')
                      /\ pc' = "done"
                 [] br = "fail" ->
                      /\ result' = Fail("Update", "failed",
                                        ErrData({"message", "errors"},
                                                r.val.Message, r.val.Errors, ""))
                      /\ LeaveLoop("edge", "failed", now')
                      /\ pc' = "done"
                 [] br = "loop" ->
                      /\ pc' = "edge_check"
                      /\ UNCHANGED <<result, loopState, loopLeft>>
    /\ UNCHANGED <<verb, args, startTime, calls, sleeps, loopEntered, handle>>
    /\ files' = RunDefers(files, pc')
    /\ UNCHANGED wire

\* time.Sleep(updateOptions.RetryTimeout); continue
EdgeUpdateSleep ==
    /\ pc = "edge_sleep"
    /\ SleepStep("edge", EdgeRetryTimeout)
    /\ pc' = "edge_check"
    /\ UNCHANGED <<verb, args, calls, polls, loopState, loopEntered, loopLeft,
                   handle, result>>
    /\ files' = RunDefers(files, pc')
    /\ UNCHANGED wire

(***************************************************************************)
(* Edge: Store.Publish.                                                    *)
(***************************************************************************)
\* outcomes of the request of Store.PublishExtension
EdgePublishOutcomes ==
    {[kind |-> k, location |-> ""] : k \in {"authErr", "sendErr", "badStatus"}}
    \cup {[kind |-> "accepted", location |-> l] : l \in EdgeLocations}

\* Store.PublishExtension: whether the publish request reaches the server
EdgePublishSent(o) == o.kind \in {"sendErr", "badStatus", "accepted"}

\* Store.PublishExtension: the operation id, or "" on any failure
PublishExtension(o) ==
    IF o.kind = "accepted" /\ o.location # "" THEN o.location ELSE ""

\* status strings of a publish status response (a plain string field)
EdgePublishStatuses == {"InProgress", "Succeeded", "Failed", "Bogus", ""}

\* outcomes of the request of Store.PublishStatus
EdgePublishStatusReplies ==
    {[kind |-> k, body |-> [status |-> "", message |-> "", errors |-> <<>>]] :
        k \in {"authErr", "sendErr", "badStatus", "readErr", "badBody"}}
    \cup {[kind |-> "body", body |-> [status |-> st, message |-> "", errors |-> <<>>]] :
            st \in EdgePublishStatuses \ {"Failed"}}
    \cup {[kind |-> "body", body |-> [status |-> "Failed", message |-> m, errors |-> e]] :
            m \in EdgeMessages, e \in EdgeErrorLists}

\* Store.PublishStatus: whether the status request reaches the server
EdgePublishStatusSent(reply) == reply.kind # "authErr"

\* a bug: a response that reports Failed is returned like any other
PublishStatusReturnsFailed(reply) ==
    IF reply.kind # "body"
    THEN Fail("PublishStatus", reply.kind, NoData)
    ELSE Ok([Status |-> reply.body.status, Message |-> reply.body.message,
             Errors |-> reply.body.errors])

\* Store.PublishStatus: the response is returned as decoded unless the
\* request failed, the code is not 200 or the status is "Failed"
PublishStatus(reply) ==
    IF reply.kind # "body"
    THEN Fail("PublishStatus", reply.kind, NoData)
    ELSE IF reply.body.status = StatusString(StatusFailed)
    THEN Fail("PublishStatus", "failed",
              ErrData({"message", "errors"}, reply.body.message, reply.body.errors, ""))
    ELSE Ok([Status |-> reply.body.status, Message |-> reply.body.message,
             Errors |-> reply.body.errors])

\* Store.Publish: the publish request
EdgePublishExtension ==
    /\ verb = "edgePublish"
    /\ pc = "start"
    /\ \E o \in EdgePublishOutcomes, tr \in TokenReplies :
        LET s == setRequestHeaders(NewRequest("EdgePublishExtension"), tr, FreshToken)
        IN  /\ o.kind = "authErr" <=> ~s.ok
            /\ wire' = EdgeWire(s)
            /\ calls' = IF EdgePublishSent(o)
                        THEN Append(calls, Call("EdgePublishExtension", args.appID, o.kind))
                        ELSE calls
            /\ handle' = [handle EXCEPT !.location = o.location,
                                        !.operationID = PublishExtension(o)]
            /\ IF PublishExtension(o) = ""
               THEN /\ result' = Fail("PublishExtension", o.kind, NoData)
                    /\ pc' = "done"
               ELSE /\ pc' = "publish_status"
                    /\ UNCHANGED result
    /\ UNCHANGED <<verb, args, now, startTime, polls, sleeps, loopState, loopEntered, loopLeft>>
    /\ files' = RunDefers(files, pc')

\* Store.Publish: the single publish status query, whose outcome is returned
EdgePublishStatus ==
    /\ verb = "edgePublish"
    /\ pc = "publish_status"
    /\ pc' = "done"
    /\ \E reply \in EdgePublishStatusReplies, tr \in TokenReplies :
        LET s == setRequestHeaders(NewRequest("EdgePublishStatus"), tr, FreshToken)
        IN  /\ reply.kind = "authErr" <=> ~s.ok
            /\ wire' = EdgeWire(s)
            /\ calls' = IF EdgePublishStatusSent(reply)
                        THEN Append(calls, Call("EdgePublishStatus", handle.operationID,
                                                IF reply.kind = "body" THEN reply.body.status
                                                ELSE reply.kind))
                        ELSE calls
            /\ result' = PublishStatus(reply)
    /\ UNCHANGED <<verb, args, now, startTime, polls, sleeps, loopState, loopEntered, loopLeft,
                   handle>>
    /\ files' = RunDefers(files, pc')

(***************************************************************************)
(* Firefox: manifest, API outcomes.                                        *)
(***************************************************************************)
ChannelUnlisted == "unlisted"
ChannelListed == "listed"

\* manifests the package may hold: gecko id under "applications", under
\* "browser_specific_settings", or nowhere; version present or not
Manifests ==
    {[readable |-> TRUE, applicationsID |-> "app@x", bssID |-> "", version |-> "1.0"],
     [readable |-> TRUE, applicationsID |-> "", bssID |-> "app@x", version |-> "1.0"],
     [readable |-> TRUE, applicationsID |-> "", bssID |-> "", version |-> "1.0"],
     [readable |-> TRUE, applicationsID |-> "app@x", bssID |-> "", version |-> ""],
     [readable |-> FALSE, applicationsID |-> "", bssID |-> "", version |-> ""]}

\* extDataFromFile
extDataFromFile(m) ==
    IF ~m.readable THEN [ok |-> FALSE, appID |-> "", version |-> ""]
    ELSE LET id == IF m.applicationsID # "" THEN m.applicationsID ELSE m.bssID
         IN  IF id = "" \/ m.version = ""
             THEN [ok |-> FALSE, appID |-> "", version |-> ""]
             ELSE [ok |-> TRUE, appID |-> id, version |-> m.version]

FirefoxClientID == "ff-client"
FirefoxClientSecret == "ff-secret"

\* a bug: the expiry is the issue time
AuthHeaderExpired(clientID, clientSecret, currentTimeSec) ==
    Header("Authorization", "JWT",
           [NoCredential EXCEPT !.iss = clientID, !.iat = currentTimeSec,
                                !.exp = currentTimeSec, !.secret = clientSecret])

\* AuthHeader: "JWT " and the token of the claims iss, iat and exp, signed
\* with the client secret; expirationSec is 5 * 60
AuthHeader(clientID, clientSecret, currentTimeSec) ==
    Header("Authorization", "JWT",
           [NoCredential EXCEPT !.iss = clientID, !.iat = currentTimeSec,
                                !.exp = currentTimeSec + 5 * 60, !.secret = clientSecret])

\* API.prepareRequest: a new request with the header of the current time;
\* a.now() is the clock of the model
prepareRequest(op) ==
    HeaderAdd(NewRequest(op), AuthHeader(FirefoxClientID, FirefoxClientSecret, now))

\* every method of API builds its request with prepareRequest: wire after
\* the API calls of one step
FirefoxWire ==
    wire \o [i \in 1..(Len(calls') - Len(calls)) |->
                ApiEntry(prepareRequest(calls'[Len(calls) + i].op))]

\* the UUIDs and version ids the backend may hand out; Sign, whose runs are
\* the longest, is given one UUID: its validation loop is the one Insert and
\* Update run with two
UUIDs == IF verb = "ffSign" THEN {"uuid1"} ELSE {"uuid1", "uuid2"}
VersionIDs == {7, 8}

\* strconv.Itoa on the version ids of the model
Itoa(n) == IF n = 7 THEN "7" ELSE IF n = 8 THEN "8" ELSE "0"

\* outcome of API.CreateUpload
CreateUploadReplies ==
    {[ok |-> FALSE, UUID |-> ""]} \cup {[ok |-> TRUE, UUID |-> u] : u \in UUIDs}

ValidationURLs == {"https://x/val"}
ValidationLists == {<<>>, <<"v1">>}

\* outcome of API.UploadDetail: an error, or the decoded UploadDetail
UploadDetailReplies ==
    {[kind |-> "err"]} \cup
    {[kind |-> "detail", Processed |-> FALSE, Valid |-> FALSE, URL |-> "", Validation |-> <<>>],
     [kind |-> "detail", Processed |-> TRUE, Valid |-> TRUE, URL |-> "", Validation |-> <<>>]} \cup
    {[kind |-> "detail", Processed |-> TRUE, Valid |-> FALSE, URL |-> u, Validation |-> v] :
        u \in ValidationURLs, v \in ValidationLists}

\* file statuses a version detail may carry
FileStatuses == {"public", "disabled", "unreviewed", "bogus", ""}

SignedURLs == {"https://x/signed.xpi"}

\* outcome of API.VersionDetail: an error, or the decoded VersionInfo
VersionDetailReplies ==
    {[kind |-> "err"]} \cup
    {[kind |-> "detail", FileStatus |-> fs, FileURL |-> u] :
        fs \in FileStatuses, u \in SignedURLs}

\* outcome of API.VersionsList
VersionsListReplies ==
    {[ok |-> FALSE, list |-> <<>>]} \cup
    {[ok |-> TRUE, list |-> l] :
        l \in {<<>>,
               <<[ID |-> 8, Version |-> "0.9"]>>,
               <<[ID |-> 8, Version |-> "0.9"], [ID |-> 7, Version |-> "1.0"]>>}}

\* what the backend answered to VersionsList about one version string
VersionsListAnswer(r, version) ==
    IF ~r.ok THEN "err"
    ELSE IF \E i \in 1..Len(r.list) : r.list[i].Version = version THEN "listed"
    ELSE "notListed"

\* what the backend answered to a VersionDetail request
VersionDetailAnswer(d) == IF d.kind = "err" THEN "err" ELSE d.FileStatus

\* outcome of the calls that return a version id (CreateVersion, CreateAddon)
VersionReplies ==
    {[ok |-> FALSE, ID |-> 0]} \cup {[ok |-> TRUE, ID |-> v] : v \in VersionIDs}

(***************************************************************************)
(* Firefox: awaitUploadValidation.                                         *)
(***************************************************************************)
retryInterval == RetryTicks
maxAwaitTime == AwaitTicks


\* a bug: a processed and valid upload is polled again
ValidationBranchValidRepolls(d) ==
    IF d.Processed /\ ~d.Valid THEN "fail" ELSE "sleep"

\* what the validation loop body does with an upload detail
ValidationBranch(d) ==
    IF d.Processed
    THEN IF d.Valid THEN "return" ELSE "fail"
    ELSE "sleep"

\* a bug: the error of a failed validation names no URL
ValidationFailedErrorNoURL(d) == NoData

\* fmt.Errorf("not valid, validation url: %s", uploadDetail.URL): the error
\* of a failed validation embeds the URL and nothing else of the detail;
\* the verbs wrap it with %w, which keeps its text
ValidationFailedError(d) == ErrData({"url"}, "", <<>>, d.URL)

\* top of the loop: the timeout test, then UploadDetail is requested
awaitUploadValidationCheck ==
    /\ pc = "val_check"
    /\ IF TimedOut(startTime, now, maxAwaitTime)
       THEN /\ result' = Fail("awaitUploadValidation", "timeout", NoData)
            /\ LeaveLoop("validation", "timeout", now)
            /\ pc' = "done"
            /\ UNCHANGED <<calls, polls>>
       ELSE /\ Len(polls["validation"]) < MaxQueries
            /\ calls' = Append(calls, Call("UploadDetail", handle.uuid, InPolls))
            /\ polls' = [polls EXCEPT !["validation"] =
                            Append(@, [at |-> now, reply |-> NoReply])]
            /\ pc' = "val_wait"
            /\ UNCHANGED <<result, loopState, loopLeft>>
    /\ UNCHANGED <<verb, args, now, startTime, sleeps, loopEntered, handle>>
    /\ files' = RunDefers(files, pc')
    /\ wire' = FirefoxWire

\* the upload detail arrives and the loop body acts on it
awaitUploadValidationReply ==
    /\ pc = "val_wait"
    /\ \E reply \in UploadDetailReplies, dur \in 0..MaxQueryDur :
        LET n == Len(polls["validation"])
            br == IF reply.kind = "err" THEN "error" ELSE ValidationBranch(reply)
        IN  /\ now' = now + dur
            /\ polls' = [polls EXCEPT !["validation"][n].reply = reply]
            /\ CASE br = "error" ->
                      /\ result' = Fail("awaitUploadValidation", "statusQuery", NoData)
                      /\ LeaveLoop("validation", "error", now')
                      /\ pc' = "done"
                 [] br = "sleep" ->
                      /\ pc' = "val_sleep"
                      /\ UNCHANGED <<result, loopState, loopLeft>>
                 [] br = "return" ->
                      /\ LeaveLoop("validation", "ok", now')
                      /\ pc' = "validated"
                      /\ UNCHANGED result
                 [] br = "fail" ->
                      /\ result' = Fail("awaitUploadValidation", "failed",
                                        ValidationFailedError(reply))
                      /\ LeaveLoop("validation", "failed", now')
                      /\ pc' = "done"
    /\ UNCHANGED <<verb, args, startTime, calls, sleeps, loopEntered, handle>>
    /\ files' = RunDefers(files, pc')
    /\ wire' = FirefoxWire

\* time.Sleep(retryInterval)
awaitUploadValidationSleep ==
    /\ pc = "val_sleep"
    /\ SleepStep("validation", retryInterval)
    /\ pc' = "val_check"
    /\ UNCHANGED <<verb, args, calls, polls, loopState, loopEntered, loopLeft,
                   handle, result>>
    /\ files' = RunDefers(files, pc')
    /\ wire' = FirefoxWire

(***************************************************************************)
(* Firefox: awaitVersionSigning.                                           *)
(***************************************************************************)
\* a bug: a disabled file is waited for like a pending one
SigningBranchDisabledWaits(fileStatus) ==
    IF fileStatus = "public" THEN "return" ELSE "sleep"

\* what the signing loop body does with a file status
SigningBranch(fileStatus) ==
    IF fileStatus = "public" THEN "return"
    ELSE IF fileStatus = "disabled" THEN "fail"
    ELSE "sleep"

\* a bug: the loop asks for a version id that is not the one just created
SignVersionIDStale == Itoa(CHOOSE id \in VersionIDs : \A other \in VersionIDs : id <= other)

\* the versionID Sign hands to awaitVersionSigning:
\* strconv.Itoa(versionInfo.ID) of the version CreateVersion returned
SignVersionID == handle.versionID

\* top of the loop: the timeout test, then VersionDetail is requested
awaitVersionSigningCheck ==
    /\ pc = "sign_check"
    /\ IF TimedOut(startTime, now, maxAwaitTime)
       THEN /\ result' = Fail("awaitVersionSigning", "timeout", NoData)
            /\ LeaveLoop("signing", "timeout", now)
            /\ pc' = "done"
            /\ UNCHANGED <<calls, polls>>
       ELSE /\ Len(polls["signing"]) < MaxQueries
            /\ calls' = Append(calls, Call("VersionDetail", SignVersionID, InPolls))
            /\ polls' = [polls EXCEPT !["signing"] =
                            Append(@, [at |-> now, reply |-> NoReply])]
            /\ pc' = "sign_wait"
            /\ UNCHANGED <<result, loopState, loopLeft>>
    /\ UNCHANGED <<verb, args, now, startTime, sleeps, loopEntered, handle>>
    /\ files' = RunDefers(files, pc')
    /\ wire' = FirefoxWire

\* the version detail arrives and the loop body acts on it
awaitVersionSigningReply ==
    /\ pc = "sign_wait"
    /\ \E reply \in VersionDetailReplies, dur \in 0..MaxQueryDur :
        LET n == Len(polls["signing"])
            br == IF reply.kind = "err" THEN "error" ELSE SigningBranch(reply.FileStatus)
        IN  /\ now' = now + dur
            /\ polls' = [polls EXCEPT !["signing"][n].reply = reply]
            /\ CASE br = "error" ->
                      /\ result' = Fail("awaitVersionSigning", "statusQuery", NoData)
                      /\ LeaveLoop("signing", "error", now')
                      /\ pc' = "done"
                 [] br = "sleep" ->
                      /\ pc' = "sign_sleep"
                      /\ UNCHANGED <<result, loopState, loopLeft>>
                 [] br = "return" ->
                      /\ LeaveLoop("signing", "ok", now')
                      /\ pc' = "signed"
                      /\ UNCHANGED result
                 [] br = "fail" ->
                      /\ result' = Fail("awaitVersionSigning", "failed",
                                        ErrData({"url"}, "", <<>>, reply.FileURL))
                      /\ LeaveLoop("signing", "failed", now')
                      /\ pc' = "done"
    /\ UNCHANGED <<verb, args, startTime, calls, sleeps, loopEntered, handle>>
    /\ files' = RunDefers(files, pc')
    /\ wire' = FirefoxWire

\* time.Sleep(retryInterval)
awaitVersionSigningSleep ==
    /\ pc = "sign_sleep"
    /\ SleepStep("signing", retryInterval)
    /\ pc' = "sign_check"
    /\ UNCHANGED <<verb, args, calls, polls, loopState, loopEntered, loopLeft,
                   handle, result>>
    /\ files' = RunDefers(files, pc')
    /\ wire' = FirefoxWire

(***************************************************************************)
(* Firefox: Insert.                                                        *)
(***************************************************************************)
\* os.Open of the package, then API.CreateUpload
UploadOutcomes ==
    {[open |-> FALSE, reply |-> [ok |-> FALSE, UUID |-> ""]]} \cup
    {[open |-> TRUE, reply |-> r] : r \in CreateUploadReplies}

\* a bug: the verb goes on after the upload without awaiting its validation
UploadStepSkipsValidation(step, channel) ==
    \E o \in UploadOutcomes :
        IF ~o.open
        THEN /\ result' = Fail(step, "openErr", NoData)
             /\ pc' = "done"
             /\ UNCHANGED <<calls, startTime, loopState, loopEntered, loopLeft, handle, files>>
        ELSE /\ calls' = Append(calls, Call("CreateUpload", channel,
                                            IF o.reply.ok THEN "ok" ELSE "err"))
             /\ files' = RunDefers(Opened(files, "package", "deferred"),
                                   IF o.reply.ok THEN "validated" ELSE "done")
             /\ IF ~o.reply.ok
                THEN /\ result' = Fail(step, "CreateUpload", NoData)
                     /\ pc' = "done"
                     /\ UNCHANGED <<startTime, loopState, loopEntered, loopLeft, handle>>
                ELSE /\ handle' = [handle EXCEPT !.uuid = o.reply.UUID]
                     /\ pc' = "validated"
                     /\ UNCHANGED <<result, startTime, loopState, loopEntered, loopLeft>>

\* the upload step shared by Insert, Update and Sign: open the file, create
\* the upload on the given channel, then enter awaitUploadValidation
UploadStep(step, channel) ==
    \E o \in UploadOutcomes :
        IF ~o.open
        THEN /\ result' = Fail(step, "openErr", NoData)
             /\ pc' = "done"
             /\ UNCHANGED <<calls, startTime, loopState, loopEntered, loopLeft, handle, files>>
        ELSE /\ calls' = Append(calls, Call("CreateUpload", channel,
                                            IF o.reply.ok THEN "ok" ELSE "err"))
             /\ files' = RunDefers(Opened(files, "package", "deferred"),
                                   IF o.reply.ok THEN "val_check" ELSE "done")
             /\ IF ~o.reply.ok
                THEN /\ result' = Fail(step, "CreateUpload", NoData)
                     /\ pc' = "done"
                     /\ UNCHANGED <<startTime, loopState, loopEntered, loopLeft, handle>>
                ELSE /\ handle' = [handle EXCEPT !.uuid = o.reply.UUID]
                     /\ EnterLoop("validation")
                     /\ pc' = "val_check"
                     /\ UNCHANGED result

\* the channel Insert uploads to
InsertChannel == ChannelUnlisted

\* Insert: open the file and upload it
InsertUpload ==
    /\ verb = "ffInsert"
    /\ pc = "start"
    /\ UploadStep("Insert", InsertChannel)
    /\ UNCHANGED <<verb, args, now, polls, sleeps>>
    /\ wire' = FirefoxWire

\* Insert: API.CreateAddon after the validation loop returned nil
InsertCreateAddon ==
    /\ verb = "ffInsert"
    /\ pc = "validated"
    /\ \E r \in VersionReplies :
        /\ calls' = Append(calls, Call("CreateAddon", handle.uuid, OkErr(r.ok)))
        /\ IF ~r.ok
           THEN /\ result' = Fail("Insert", "CreateAddon", NoData)
                /\ pc' = "done"
                /\ UNCHANGED handle
           ELSE /\ handle' = [handle EXCEPT !.versionID = Itoa(r.ID)]
                /\ IF args.sourcepath = ""
                   THEN /\ result' = Ok(NoValue)
                        /\ pc' = "done"
                   ELSE /\ pc' = "attach"
                        /\ UNCHANGED result
    /\ UNCHANGED <<verb, args, now, startTime, polls, sleeps, loopState, loopEntered, loopLeft>>
    /\ files' = RunDefers(files, pc')
    /\ wire' = FirefoxWire

\* Insert: open the source, read the manifest, attach the source
InsertAttachSource ==
    /\ verb = "ffInsert"
    /\ pc = "attach"
    /\ pc' = "done"
    /\ \E open \in BOOLEAN, attached \in BOOLEAN :
        LET ext == extDataFromFile(args.manifest)
        IN  IF ~open
            THEN /\ result' = Fail("Insert", "openErr", NoData)
                 /\ files' = RunDefers(files, "done")
                 /\ UNCHANGED calls
            ELSE IF ~ext.ok
            THEN /\ result' = Fail("Insert", "manifest", NoData)
                 /\ files' = RunDefers(Opened(files, "source", "deferred"), "done")
                 /\ UNCHANGED calls
            ELSE /\ calls' = Append(calls, Call("AttachSourceToVersion", handle.versionID,
                                                  OkErr(attached)))
                 /\ files' = RunDefers(Opened(files, "source", "deferred"), "done")
                 /\ result' = IF attached THEN Ok(NoValue)
                              ELSE Fail("Insert", "AttachSourceToVersion", NoData)
    /\ UNCHANGED <<verb, args, now, startTime, polls, sleeps, loopState, loopEntered, loopLeft,
                   handle>>
    /\ wire' = FirefoxWire

(***************************************************************************)
(* Firefox: Update.                                                        *)
(***************************************************************************)
\* Update: read the manifest, open the file and upload it to the caller's
\* channel
UpdateUpload ==
    /\ verb = "ffUpdate"
    /\ pc = "start"
    /\ LET ext == extDataFromFile(args.manifest)
       IN  IF ~ext.ok
           THEN /\ result' = Fail("Update", "manifest", NoData)
                /\ pc' = "done"
                /\ UNCHANGED <<calls, startTime, loopState, loopEntered, loopLeft, handle, files>>
           ELSE UploadStep("Update", args.channel)
    /\ UNCHANGED <<verb, args, now, polls, sleeps>>
    /\ wire' = FirefoxWire

\* a bug: the version is created for the application id, not for the upload
CreateVersionStepOfApp(step, next) ==
    \E r \in VersionReplies :
        /\ calls' = Append(calls, Call("CreateVersion", args.appID, OkErr(r.ok)))
        /\ IF ~r.ok
           THEN /\ result' = Fail(step, "CreateVersion", NoData)
                /\ pc' = "done"
                /\ UNCHANGED <<handle, startTime, loopState, loopEntered, loopLeft>>
           ELSE /\ handle' = [handle EXCEPT !.versionID = Itoa(r.ID)]
                /\ next

\* the step shared by Update and Sign: API.CreateVersion for the upload
CreateVersionStep(step, next) ==
    \E r \in VersionReplies :
        /\ calls' = Append(calls, Call("CreateVersion", handle.uuid, OkErr(r.ok)))
        /\ IF ~r.ok
           THEN /\ result' = Fail(step, "CreateVersion", NoData)
                /\ pc' = "done"
                /\ UNCHANGED <<handle, startTime, loopState, loopEntered, loopLeft>>
           ELSE /\ handle' = [handle EXCEPT !.versionID = Itoa(r.ID)]
                /\ next

\* the step shared by Update and Sign: open the source and attach it; no
\* Close of the source is registered or called
AttachSourceStep(step, next) ==
    \E open \in BOOLEAN, attached \in BOOLEAN :
        IF ~open
        THEN /\ result' = Fail(step, "openErr", NoData)
             /\ pc' = "done"
             /\ files' = RunDefers(files, "done")
             /\ UNCHANGED <<calls, startTime, loopState, loopEntered, loopLeft>>
        ELSE /\ calls' = Append(calls, Call("AttachSourceToVersion", handle.versionID,
                                              OkErr(attached)))
             /\ IF ~attached
                THEN /\ result' = Fail(step, "AttachSourceToVersion", NoData)
                     /\ pc' = "done"
                     /\ UNCHANGED <<startTime, loopState, loopEntered, loopLeft>>
                ELSE next
             /\ files' = RunDefers(Opened(files, "source", "open"), pc')

\* the verb returns nil
ReturnNil ==
    /\ result' = Ok(NoValue)
    /\ pc' = "done"
    /\ UNCHANGED <<startTime, loopState, loopEntered, loopLeft>>

\* Update: API.CreateVersion after the validation loop returned nil
UpdateCreateVersion ==
    /\ verb = "ffUpdate"
    /\ pc = "validated"
    /\ CreateVersionStep("Update",
            IF args.sourcepath = ""
            THEN ReturnNil
            ELSE /\ pc' = "attach"
                 /\ UNCHANGED <<result, startTime, loopState, loopEntered, loopLeft>>)
    /\ UNCHANGED <<verb, args, now, polls, sleeps>>
    /\ files' = RunDefers(files, pc')
    /\ wire' = FirefoxWire

\* Update: open the source and attach it
UpdateAttachSource ==
    /\ verb = "ffUpdate"
    /\ pc = "attach"
    /\ AttachSourceStep("Update", ReturnNil)
    /\ UNCHANGED <<verb, args, now, polls, sleeps, handle>>
    /\ wire' = FirefoxWire

(***************************************************************************)
(* Firefox: Sign and downloadSigned.                                       *)
(***************************************************************************)
\* getVersionID: the id of the first listed version with that version string
RECURSIVE getVersionID(_, _)
getVersionID(list, version) ==
    IF list = <<>> THEN ""
    ELSE IF Head(list).Version = version THEN Itoa(Head(list).ID)
    ELSE getVersionID(Tail(list), version)

\* a bug: a public file is reported as not signed, without an error
isSignedNever(d) ==
    IF d.kind = "err" THEN [signed |-> FALSE, ok |-> FALSE]
    ELSE IF d.FileStatus = "public" THEN [signed |-> FALSE, ok |-> TRUE]
    ELSE [signed |-> FALSE, ok |-> FALSE]

\* isSigned on a version detail
isSigned(d) ==
    IF d.kind = "err" THEN [signed |-> FALSE, ok |-> FALSE]
    ELSE IF d.FileStatus = "public" THEN [signed |-> TRUE, ok |-> TRUE]
    ELSE [signed |-> FALSE, ok |-> FALSE]

\* a bug: a version that is listed already is uploaded again
SignBranchAlwaysUploads(versionID) == "sign_upload"

\* Sign after hasVersion: `if versionID != ""` leads to isSigned, the empty
\* id to the upload
SignBranch(versionID) == IF versionID # "" THEN "is_signed" ELSE "sign_upload"

\* Sign: read the manifest, then hasVersion asks for the versions list
SignHasVersion ==
    /\ verb = "ffSign"
    /\ pc = "start"
    /\ LET ext == extDataFromFile(args.manifest)
       IN  IF ~ext.ok
           THEN /\ result' = Fail("Sign", "manifest", NoData)
                /\ pc' = "done"
                /\ UNCHANGED <<calls, handle>>
           ELSE \E r \in VersionsListReplies :
                    /\ calls' = Append(calls, Call("VersionsList", ext.appID,
                                                    VersionsListAnswer(r, ext.version)))
                    /\ IF ~r.ok
                       THEN /\ result' = Fail("Sign", "VersionsList", NoData)
                            /\ pc' = "done"
                            /\ UNCHANGED handle
                       ELSE /\ handle' = [handle EXCEPT
                                             !.versionID = getVersionID(r.list, ext.version)]
                            /\ pc' = SignBranch(handle'.versionID)
                            /\ UNCHANGED result
    /\ UNCHANGED <<verb, args, now, startTime, polls, sleeps, loopState, loopEntered, loopLeft>>
    /\ files' = RunDefers(files, pc')
    /\ wire' = FirefoxWire

\* Sign: the version is already uploaded; isSigned asks for its detail
SignIsSigned ==
    /\ verb = "ffSign"
    /\ pc = "is_signed"
    /\ \E d \in VersionDetailReplies :
        LET r == isSigned(d)
        IN  /\ calls' = Append(calls, Call("VersionDetail", handle.versionID,
                                           VersionDetailAnswer(d)))
            /\ IF ~r.ok
               THEN /\ result' = Fail("Sign", "isSigned", NoData)
                    /\ pc' = "done"
               ELSE IF r.signed
               THEN /\ pc' = "download"
                    /\ UNCHANGED result
               ELSE /\ result' = Ok(NoValue)
                    /\ pc' = "done"
    /\ UNCHANGED <<verb, args, now, startTime, polls, sleeps, loopState, loopEntered, loopLeft,
                   handle>>
    /\ files' = RunDefers(files, pc')
    /\ wire' = FirefoxWire

\* a bug: Sign uploads to the channel the caller configured
SignChannelOfCaller == args.channel

\* the channel Sign uploads to
SignChannel == ChannelUnlisted

\* Sign: the version is not uploaded yet; open the file and upload it
SignUpload ==
    /\ verb = "ffSign"
    /\ pc = "sign_upload"
    /\ UploadStep("Sign", SignChannel)
    /\ UNCHANGED <<verb, args, now, polls, sleeps>>
    /\ wire' = FirefoxWire

\* entering awaitVersionSigning
EnterSigning ==
    /\ EnterLoop("signing")
    /\ pc' = "sign_check"
    /\ UNCHANGED result

\* Sign: API.CreateVersion after the validation loop returned nil
SignCreateVersion ==
    /\ verb = "ffSign"
    /\ pc = "validated"
    /\ CreateVersionStep("Sign",
            IF args.sourcepath = ""
            THEN EnterSigning
            ELSE /\ pc' = "attach"
                 /\ UNCHANGED <<result, startTime, loopState, loopEntered, loopLeft>>)
    /\ UNCHANGED <<verb, args, now, polls, sleeps>>
    /\ files' = RunDefers(files, pc')
    /\ wire' = FirefoxWire

\* Sign: open the source and attach it, then wait for the signing
SignAttachSource ==
    /\ verb = "ffSign"
    /\ pc = "attach"
    /\ AttachSourceStep("Sign", EnterSigning)
    /\ UNCHANGED <<verb, args, now, polls, sleeps, handle>>
    /\ wire' = FirefoxWire

\* Sign: awaitVersionSigning returned nil
SignSigned ==
    /\ verb = "ffSign"
    /\ pc = "signed"
    /\ pc' = "download"
    /\ UNCHANGED <<verb, args, now, startTime, calls, polls, sleeps, loopState,
                   loopEntered, loopLeft, handle, result>>
    /\ files' = RunDefers(files, pc')
    /\ wire' = FirefoxWire

\* downloadSigned: the version detail gives the download URL
downloadSignedDetail ==
    /\ pc = "download"
    /\ \E d \in VersionDetailReplies :
        /\ calls' = Append(calls, Call("VersionDetail", handle.versionID,
                                       VersionDetailAnswer(d)))
        /\ IF d.kind = "err"
           THEN /\ result' = Fail("downloadSigned", "VersionDetail", NoData)
                /\ pc' = "done"
                /\ UNCHANGED handle
           ELSE /\ handle' = [handle EXCEPT !.downloadURL = d.FileURL]
                /\ pc' = "download_fetch"
                /\ UNCHANGED result
    /\ UNCHANGED <<verb, args, now, startTime, polls, sleeps, loopState, loopEntered, loopLeft>>
    /\ files' = RunDefers(files, pc')
    /\ wire' = FirefoxWire

\* what happens to the request of API.DownloadSignedByURL: it cannot be
\* sent, it is answered with a status code other than 200, the body cannot
\* be read, or it is answered 200 with the artifact
DownloadReplies == {"sendErr", "badStatus", "readErr", "ok"}

\* API.DownloadSignedByURL: the error of client.Do is returned; the error of
\* readBody (status code, read failure) is assigned and then dropped by
\* "return responseBody, nil", the body being nil in that case
DownloadSignedByURL(reply) ==
    IF reply = "sendErr" THEN [ok |-> FALSE, body |-> "nil"]
    ELSE IF reply = "ok" THEN [ok |-> TRUE, body |-> "xpi"]
    ELSE [ok |-> TRUE, body |-> "nil"]

\* downloadSigned: fetch the artifact, create the output file, write it; the
\* Close of the output file is deferred only after the copy succeeded.  The
\* output file is let fail only after a download that was answered well.
downloadSignedFetch ==
    /\ pc = "download_fetch"
    /\ pc' = "done"
    /\ \E reply \in DownloadReplies, o \in {"createErr", "copyErr", "written"} :
        LET d == DownloadSignedByURL(reply)
        IN  /\ reply # "ok" => o = "written"
            /\ calls' = Append(calls, Call("DownloadSignedByURL", handle.downloadURL, reply))
            /\ IF ~d.ok
               THEN /\ result' = Fail("downloadSigned", "DownloadSignedByURL", NoData)
                    /\ files' = RunDefers(files, "done")
               ELSE /\ result' = IF o = "written" THEN Ok(NoValue)
                                 ELSE Fail("downloadSigned", o, NoData)
                    /\ files' = CASE o = "createErr" -> RunDefers(files, "done")
                                  [] o = "copyErr" ->
                                       RunDefers(Opened(files, "output", "open"), "done")
                                  [] o = "written" ->
                                       RunDefers(Opened(files, "output", "deferred"), "done")
    /\ UNCHANGED <<verb, args, now, startTime, polls, sleeps, loopState, loopEntered, loopLeft,
                   handle>>
    /\ wire' = FirefoxWire

(***************************************************************************)
(* Chrome: Publish of StoreV1 (v1.1 API), Store (v1.1 API, query           *)
(* parameters) and StoreV2 (v2 API).                                       *)
(***************************************************************************)
\* rollout percentages a caller may pass; NoPercentage is an option set
\* without a DeployPercentage / DeployInfos entry
NoPercentage == [set |-> FALSE, value |-> 0]
Percentages == {NoPercentage} \cup {[set |-> TRUE, value |-> v] : v \in {-1, 0, 100, 101}}

\* the range test of StoreV1.Publish and Store.Publish
InvalidPercentage(p) == p.set /\ (p.value < 0 \/ p.value > 100)

\* a bug: the status code of the token endpoint is not looked at
AuthorizeAnyStatus(reply, fresh) ==
    IF reply.kind = "sendErr" \/ reply.body = "notJSON"
    THEN [ok |-> FALSE, token |-> 0]
    ELSE [ok |-> TRUE, token |-> IF reply.body = "token" THEN fresh ELSE 0]

\* Client.Authorize: the token request goes through makeRequest, which
\* returns an error unless the answer is 200 with a JSON body; a body without
\* access_token decodes to the empty token
Authorize(reply, fresh) ==
    IF reply.kind = "sendErr" \/ reply.status # 200 \/ reply.body = "notJSON"
    THEN [ok |-> FALSE, token |-> 0]
    ELSE [ok |-> TRUE, token |-> IF reply.body = "token" THEN fresh ELSE 0]

\* a bug: a refused token request is sent a second time
AuthorizeStepRetries(step, next) ==
    \E tr \in TokenReplies :
        LET a == Authorize(tr, FreshToken)
        IN  /\ calls' = Append(calls, Call("Authorize", "", OkErr(a.ok)))
            /\ wire' = Append(wire, TokenEntry("Authorize", tr, a))
            /\ handle' = [handle EXCEPT !.accessToken = a.token]
            /\ IF ~a.ok
               THEN IF calls = <<>>
                    THEN /\ pc' = pc
                         /\ UNCHANGED result
                    ELSE /\ result' = Fail(step, "Authorize", NoData)
                         /\ pc' = "done"
               ELSE next

\* accessToken, err := s.client.Authorize(): one token request, then its
\* answer
AuthorizeStep(step, next) ==
    \E tr \in TokenReplies :
        LET a == Authorize(tr, FreshToken)
        IN  /\ calls' = Append(calls, Call("Authorize", "", OkErr(a.ok)))
            /\ wire' = Append(wire, TokenEntry("Authorize", tr, a))
            /\ handle' = [handle EXCEPT !.accessToken = a.token]
            /\ IF ~a.ok
               THEN /\ result' = Fail(step, "Authorize", NoData)
                    /\ pc' = "done"
               ELSE next

\* the verbs of the Store type, which builds its requests itself
ChromeStoreVerbs == {"chromePublish", "chromeInsert", "chromeUpdate"}

\* the API request of a Chrome verb: makeRequest adds the Bearer header only
\* when the token is not empty, the Store type adds it always
ChromeRequest(v, op, token, contentType) ==
    LET req == IF token # 0 \/ v \in ChromeStoreVerbs
               THEN HeaderAdd(NewRequest(op), Header("Authorization", "Bearer",
                                                     [NoCredential EXCEPT !.token = token]))
               ELSE NewRequest(op)
    IN  IF contentType # "" THEN HeaderAdd(req, ContentType(contentType)) ELSE req

\* the publish request is ready to be sent
ToPublishRequest ==
    /\ pc' = "publish_request"
    /\ UNCHANGED result

\* the verb returns the out-of-range error
RejectPercentage(step) ==
    /\ result' = Fail(step, "invalidPercentage", NoData)
    /\ pc' = "done"

\* StoreV1.Publish: the options are validated, then the token is requested
StoreV1Publish ==
    /\ verb = "chromeV1Publish"
    /\ pc = "start"
    /\ IF InvalidPercentage(args.percentage)
       THEN /\ RejectPercentage("StoreV1.Publish")
            /\ UNCHANGED <<calls, wire, handle>>
       ELSE AuthorizeStep("StoreV1.Publish", ToPublishRequest)
    /\ UNCHANGED <<verb, args, now, startTime, polls, sleeps, loopState, loopEntered, loopLeft>>
    /\ files' = RunDefers(files, pc')

\* Store.Publish: the token is requested, then the query parameters are
\* built, which is where the percentage is validated
StorePublish ==
    /\ verb = "chromePublish"
    /\ pc = "start"
    /\ AuthorizeStep("Store.Publish",
            IF InvalidPercentage(args.percentage)
            THEN RejectPercentage("Store.Publish")
            ELSE ToPublishRequest)
    /\ UNCHANGED <<verb, args, now, startTime, polls, sleeps, loopState, loopEntered, loopLeft>>
    /\ files' = RunDefers(files, pc')

\* StoreV2.Publish: the token is requested; the options are marshalled as
\* they are
StoreV2Publish ==
    /\ verb = "chromeV2Publish"
    /\ pc = "start"
    /\ AuthorizeStep("StoreV2.Publish", ToPublishRequest)
    /\ UNCHANGED <<verb, args, now, startTime, polls, sleeps, loopState, loopEntered, loopLeft>>
    /\ files' = RunDefers(files, pc')

ItemStateUnspecified == 0
ItemStatePendingReview == 1
ItemStateStaged == 2
ItemStatePublished == 3
ItemStatePublishedToTesters == 4
ItemStateRejected == 5
ItemStateCancelled == 6

\* ItemState.UnmarshalJSON on the decoded JSON string
ItemStateUnmarshalJSON(state) ==
    CASE state = "ITEM_STATE_UNSPECIFIED" -> [ok |-> TRUE, val |-> ItemStateUnspecified]
      [] state = "PENDING_REVIEW" -> [ok |-> TRUE, val |-> ItemStatePendingReview]
      [] state = "STAGED" -> [ok |-> TRUE, val |-> ItemStateStaged]
      [] state = "PUBLISHED" -> [ok |-> TRUE, val |-> ItemStatePublished]
      [] state = "PUBLISHED_TO_TESTERS" -> [ok |-> TRUE, val |-> ItemStatePublishedToTesters]
      [] state = "REJECTED" -> [ok |-> TRUE, val |-> ItemStateRejected]
      [] state = "CANCELLED" -> [ok |-> TRUE, val |-> ItemStateCancelled]
      [] OTHER -> [ok |-> FALSE, val |-> ItemStateUnspecified]

\* ItemState.String; ItemState.MarshalJSON is json.Marshal of it
ItemStateString(i) ==
    CASE i = ItemStateUnspecified -> "ITEM_STATE_UNSPECIFIED"
      [] i = ItemStatePendingReview -> "PENDING_REVIEW"
      [] i = ItemStateStaged -> "STAGED"
      [] i = ItemStatePublished -> "PUBLISHED"
      [] i = ItemStatePublishedToTesters -> "PUBLISHED_TO_TESTERS"
      [] i = ItemStateRejected -> "REJECTED"
      [] i = ItemStateCancelled -> "CANCELLED"
      [] OTHER -> "!bad_item_state_" \o ToString(i)

\* item state strings the body of a v2 publish response may carry; Absent is
\* a body with no "state" member
ItemStateStrings == {"PENDING_REVIEW", "PUBLISHED", "REJECTED", "CANCELLED", "Bogus", Absent}

\* what happens to the publish request: it cannot be sent, the code is not
\* 200, the body is not JSON, or the code is 200 and the body is decoded;
\* only the v2 response has an item state
PublishReplies(v) ==
    {[kind |-> k, state |-> Absent] : k \in {"sendErr", "badStatus", "badBody"}}
    \cup {[kind |-> "ok200", state |-> st] :
            st \in IF v = "chromeV2Publish" THEN ItemStateStrings ELSE {Absent}}

\* json.Unmarshal of the body into PublishResponse: an absent member leaves
\* the zero value, a present one goes through ItemState.UnmarshalJSON
PublishDecode(reply) ==
    IF reply.kind # "ok200" THEN [ok |-> FALSE, val |-> ItemStateUnspecified, why |-> reply.kind]
    ELSE IF reply.state = Absent THEN [ok |-> TRUE, val |-> ItemStateUnspecified, why |-> ""]
    ELSE LET u == ItemStateUnmarshalJSON(reply.state)
         IN  [ok |-> u.ok, val |-> u.val, why |-> IF u.ok THEN "" ELSE "badBody"]

\* what the backend answered to the publish request
PublishAnswer(v, reply) ==
    IF reply.kind # "ok200" THEN reply.kind
    ELSE IF v = "chromeV2Publish" /\ reply.state # Absent THEN reply.state
    ELSE "ok"

\* the publish request is sent and answered; the decoded response is
\* returned whatever item state it carries
PublishRequest ==
    /\ pc = "publish_request"
    /\ pc' = "done"
    /\ \E reply \in PublishReplies(verb) :
        LET d == PublishDecode(reply)
        IN  /\ calls' = Append(calls, Call("Publish", args.appID, PublishAnswer(verb, reply)))
            /\ wire' = Append(wire, ApiEntry(ChromeRequest(verb, "Publish", handle.accessToken, "")))
            /\ result' = IF d.ok THEN Ok([Status |-> d.val, Message |-> "", Errors |-> <<>>])
                         ELSE Fail("Publish", d.why, NoData)
    /\ UNCHANGED <<verb, args, now, startTime, polls, sleeps, loopState, loopEntered, loopLeft,
                   handle>>
    /\ files' = RunDefers(files, pc')

(***************************************************************************)
(* Chrome: the upload operations.  StoreV1.Insert and StoreV1.Update (v1.1 *)
(* API), Store.Insert and Store.Update (the earlier v1.1 client) and       *)
(* StoreV2.Upload (v2 API).                                                *)
(***************************************************************************)
UploadStateInvalidV1 == 0
UploadStateSuccessV1 == 1
UploadStateFailureV1 == 2
UploadStateInProgressV1 == 3
UploadStateNotFoundV1 == 4

UploadStateInvalidV2 == 0
UploadStateSucceededV2 == 1
UploadStateFailedV2 == 2
UploadStateInProgressV2 == 3
UploadStateNotFoundV2 == 4

\* UploadStateV1.UnmarshalJSON (UploadState.UnmarshalJSON is the same)
UploadStateV1UnmarshalJSON(state) ==
    CASE state = "SUCCESS" -> [ok |-> TRUE, val |-> UploadStateSuccessV1]
      [] state = "FAILURE" -> [ok |-> TRUE, val |-> UploadStateFailureV1]
      [] state = "IN_PROGRESS" -> [ok |-> TRUE, val |-> UploadStateInProgressV1]
      [] state = "NOT_FOUND" -> [ok |-> TRUE, val |-> UploadStateNotFoundV1]
      [] OTHER -> [ok |-> FALSE, val |-> UploadStateInvalidV1]

\* UploadStateV2.UnmarshalJSON
UploadStateV2UnmarshalJSON(state) ==
    CASE state = "UPLOAD_STATE_UNSPECIFIED" -> [ok |-> TRUE, val |-> UploadStateInvalidV2]
      [] state = "SUCCEEDED" -> [ok |-> TRUE, val |-> UploadStateSucceededV2]
      [] state = "FAILED" -> [ok |-> TRUE, val |-> UploadStateFailedV2]
      [] state = "IN_PROGRESS" -> [ok |-> TRUE, val |-> UploadStateInProgressV2]
      [] state = "NOT_FOUND" -> [ok |-> TRUE, val |-> UploadStateNotFoundV2]
      [] OTHER -> [ok |-> FALSE, val |-> UploadStateInvalidV2]

\* UploadStateV1.String; UploadStateV1.MarshalJSON is json.Marshal of it
UploadStateV1String(u) ==
    CASE u = UploadStateSuccessV1 -> "SUCCESS"
      [] u = UploadStateFailureV1 -> "FAILURE"
      [] u = UploadStateInProgressV1 -> "IN_PROGRESS"
      [] u = UploadStateNotFoundV1 -> "NOT_FOUND"
      [] OTHER -> "!bad_status_" \o ToString(u)

\* UploadStateV2.String; UploadStateV2.MarshalJSON is json.Marshal of it
UploadStateV2String(u) ==
    CASE u = UploadStateInvalidV2 -> "UPLOAD_STATE_UNSPECIFIED"
      [] u = UploadStateSucceededV2 -> "SUCCEEDED"
      [] u = UploadStateFailedV2 -> "FAILED"
      [] u = UploadStateInProgressV2 -> "IN_PROGRESS"
      [] u = UploadStateNotFoundV2 -> "NOT_FOUND"
      [] OTHER -> "!bad_status_" \o ToString(u)

\* upload state strings a response body may carry; Absent is a body with
\* no upload state member
ChromeStateStrings ==
    {"SUCCESS", "FAILURE", "SUCCEEDED", "FAILED", "IN_PROGRESS", "NOT_FOUND",
     "UPLOAD_STATE_UNSPECIFIED", Absent}

\* what happens to the upload request: it cannot be sent, the body cannot
\* be read, the code is not 200, or the code is 200 and the body carries a
\* state
ChromeUploadReplies ==
    {[kind |-> k, state |-> Absent] : k \in {"sendErr", "readErr", "badStatus"}}
    \cup {[kind |-> "ok200", state |-> st] : st \in ChromeStateStrings}

ChromePublishVerbs == {"chromeV1Publish", "chromePublish", "chromeV2Publish"}
ChromeV1Verbs == {"chromeV1Insert", "chromeV1Update", "chromeInsert", "chromeUpdate"}
ChromeUploadVerbs == ChromeV1Verbs \cup {"chromeV2Upload"}

\* makeRequest, then json.Unmarshal into the result of the verb: an absent
\* member leaves the zero value
ChromeDecode(v, reply) ==
    IF reply.kind # "ok200" THEN [ok |-> FALSE, val |-> 0, why |-> reply.kind]
    ELSE IF reply.state = Absent THEN [ok |-> TRUE, val |-> 0, why |-> ""]
    ELSE LET u == IF v \in ChromeV1Verbs THEN UploadStateV1UnmarshalJSON(reply.state)
                  ELSE UploadStateV2UnmarshalJSON(reply.state)
         IN  [ok |-> u.ok, val |-> u.val, why |-> IF u.ok THEN "" ELSE "badBody"]

\* a bug: no embedded state makes the verb fail
ChromeRejectsNothing(v, state) == FALSE

\* the test each verb applies to the decoded upload state
ChromeRejects(v, state) ==
    CASE v \in {"chromeV1Insert", "chromeInsert"} -> state # UploadStateSuccessV1
      [] v \in {"chromeV1Update", "chromeUpdate"} -> state = UploadStateFailureV1
      [] v = "chromeV2Upload" -> state = UploadStateFailedV2

\* how the verb holds the package file: StoreV1 and StoreV2 defer its Close,
\* Store.Insert and Store.Update never close it
ChromeFileHow(v) == IF v \in {"chromeInsert", "chromeUpdate"} THEN "open" ELSE "deferred"

\* the upload request is ready to be sent
ToUploadRequest ==
    /\ pc' = "chrome_upload"
    /\ UNCHANGED result

\* the first step of every upload verb: the token is requested
ChromeUploadAuthorize(step) ==
    /\ pc = "start"
    /\ AuthorizeStep(step, ToUploadRequest)
    /\ UNCHANGED <<verb, args, now, startTime, polls, sleeps, loopState, loopEntered, loopLeft>>
    /\ files' = RunDefers(files, pc')

StoreV1Insert ==
    /\ verb = "chromeV1Insert"
    /\ ChromeUploadAuthorize("StoreV1.Insert")

StoreV1Update ==
    /\ verb = "chromeV1Update"
    /\ ChromeUploadAuthorize("StoreV1.Update")

StoreInsert ==
    /\ verb = "chromeInsert"
    /\ ChromeUploadAuthorize("Store.Insert")

StoreUpdate ==
    /\ verb = "chromeUpdate"
    /\ ChromeUploadAuthorize("Store.Update")

StoreV2Upload ==
    /\ verb = "chromeV2Upload"
    /\ ChromeUploadAuthorize("StoreV2.Upload")

\* the rest of every upload verb: the package is opened, the request is
\* sent, the response is decoded and its upload state inspected
ChromeUploadRequest ==
    /\ pc = "chrome_upload"
    /\ pc' = "done"
    /\ \E open \in BOOLEAN, reply \in ChromeUploadReplies :
        LET d == ChromeDecode(verb, reply)
        IN  IF ~open
            THEN /\ result' = Fail(verb, "openErr", NoData)
                 /\ UNCHANGED <<calls, files, wire>>
            ELSE /\ calls' = Append(calls, Call("ChromeUpload", args.appID,
                                                IF reply.kind = "ok200" THEN reply.state
                                                ELSE reply.kind))
                 /\ wire' = Append(wire, ApiEntry(ChromeRequest(verb, "ChromeUpload",
                                handle.accessToken,
                                IF verb \in ChromeStoreVerbs THEN "" ELSE "application/zip")))
                 /\ files' = RunDefers(Opened(files, "package", ChromeFileHow(verb)), "done")
                 /\ result' = IF ~d.ok THEN Fail(verb, d.why, NoData)
                              ELSE IF ChromeRejects(verb, d.val)
                              THEN Fail(verb, "uploadState", NoData)
                              ELSE Ok([Status |-> d.val, Message |-> "", Errors |-> <<>>])
    /\ UNCHANGED <<verb, args, now, startTime, polls, sleeps, loopState, loopEntered, loopLeft,
                   handle>>

(***************************************************************************)
(* The Status verb: one status request, no polling.                        *)
(***************************************************************************)
ChromeStatusVerbs == {"chromeV1Status", "chromeV2Status"}

\* the answers to a status request of the Chrome API, as makeRequest tells
\* them apart
ChromeStatusReplies == {"sendErr", "badStatus", "badBody", "ok200"}

\* the status request is ready to be sent
ToStatusRequest ==
    /\ pc' = "chrome_status"
    /\ UNCHANGED result

\* StoreV1.Status up to its request: the token is requested
StoreV1Status ==
    /\ verb = "chromeV1Status"
    /\ pc = "start"
    /\ AuthorizeStep("StoreV1.Status", ToStatusRequest)
    /\ UNCHANGED <<verb, args, now, startTime, polls, sleeps, loopState, loopEntered, loopLeft>>
    /\ files' = RunDefers(files, pc')

\* StoreV2.Status up to its request: the token is requested
StoreV2Status ==
    /\ verb = "chromeV2Status"
    /\ pc = "start"
    /\ AuthorizeStep("StoreV2.Status", ToStatusRequest)
    /\ UNCHANGED <<verb, args, now, startTime, polls, sleeps, loopState, loopEntered, loopLeft>>
    /\ files' = RunDefers(files, pc')

\* a bug: a status request that fails is sent once more
ChromeStatusRequestRepolls ==
    /\ pc = "chrome_status"
    /\ \E reply \in ChromeStatusReplies :
        /\ calls' = Append(calls, Call("ChromeStatus", args.appID, reply))
        /\ wire' = Append(wire, ApiEntry(ChromeRequest(verb, "ChromeStatus",
                                                       handle.accessToken, "")))
        /\ IF reply = "ok200"
           THEN /\ result' = Ok([ID |-> args.appID, Status |-> "status", CurrentVersion |-> ""])
                /\ pc' = "done"
           ELSE IF CallsOf("ChromeStatus") = {}
                THEN /\ pc' = pc
                     /\ UNCHANGED result
                ELSE /\ result' = Fail(verb, reply, NoData)
                     /\ pc' = "done"
    /\ files' = RunDefers(files, pc')
    /\ UNCHANGED <<verb, args, now, startTime, polls, sleeps, loopState, loopEntered, loopLeft,
                   handle>>

\* the rest of StoreV1.Status and StoreV2.Status: the one request is sent and
\* its decoded answer or its error returned
ChromeStatusRequest ==
    /\ pc = "chrome_status"
    /\ pc' = "done"
    /\ \E reply \in ChromeStatusReplies :
        /\ calls' = Append(calls, Call("ChromeStatus", args.appID, reply))
        /\ wire' = Append(wire, ApiEntry(ChromeRequest(verb, "ChromeStatus",
                                                       handle.accessToken, "")))
        /\ result' = IF reply = "ok200"
                     THEN Ok([ID |-> args.appID, Status |-> "status", CurrentVersion |-> ""])
                     ELSE Fail(verb, reply, NoData)
    /\ files' = RunDefers(files, pc')
    /\ UNCHANGED <<verb, args, now, startTime, polls, sleeps, loopState, loopEntered, loopLeft,
                   handle>>

\* what the add-on detail names as versions: version, current_version and
\* latest_unlisted_version, "" where the member is absent
AddonVersions ==
    {[Version |-> v, CurrentVersion |-> c, LatestUnlistedVersion |-> u] :
        v \in {"", "3.0"}, c \in {"", "2.0"}, u \in {"", "1.0"}}

\* the answers to the add-on detail request
AddonStatusReplies ==
    {[kind |-> k, status |-> "", versions |-> CHOOSE a \in AddonVersions : a.Version = "3.0"
                                                  /\ a.CurrentVersion = "" /\ a.LatestUnlistedVersion = ""] :
        k \in {"sendErr", "badStatus", "badBody"}}
    \cup {[kind |-> "ok200", status |-> s, versions |-> a] :
            s \in {"public", "incomplete"}, a \in AddonVersions}

\* API.Status after the request: the version named first wins, an add-on
\* without versions is an error
APIStatus(appID, reply) ==
    IF reply.kind # "ok200" THEN Fail("Status", reply.kind, NoData)
    ELSE LET a == reply.versions
         IN  IF a.Version # ""
             THEN Ok([ID |-> appID, Status |-> reply.status, CurrentVersion |-> a.Version])
             ELSE IF a.CurrentVersion # ""
             THEN Ok([ID |-> appID, Status |-> reply.status, CurrentVersion |-> a.CurrentVersion])
             ELSE IF a.LatestUnlistedVersion # ""
             THEN Ok([ID |-> appID, Status |-> reply.status,
                      CurrentVersion |-> a.LatestUnlistedVersion])
             ELSE Fail("Status", "noVersions", NoData)

\* Store.Status of Firefox: the answer of API.Status is returned as it is
FirefoxStatus ==
    /\ verb = "ffStatus"
    /\ pc = "start"
    /\ pc' = "done"
    /\ \E reply \in AddonStatusReplies :
        /\ calls' = Append(calls, Call("Status", args.appID,
                                       IF reply.kind = "ok200" THEN reply.status ELSE reply.kind))
        /\ result' = APIStatus(args.appID, reply)
    /\ wire' = FirefoxWire
    /\ files' = RunDefers(files, pc')
    /\ UNCHANGED <<verb, args, now, startTime, polls, sleeps, loopState, loopEntered, loopLeft,
                   handle>>

(***************************************************************************)
(* The texts of the errors a polling loop returns.  A text is the sequence *)
(* of its words and punctuation marks; the format strings are those of     *)
(* fmt.Errorf in the source.                                               *)
(***************************************************************************)
\* the words of a backend string of the model
Words(m) == IF m = "" THEN <<>> ELSE <<m>>

\* the polling loop of the function that returns the error
LoopOfStep(step) ==
    CASE step = "Update" -> "edge"
      [] step = "awaitUploadValidation" -> "validation"
      [] step = "awaitVersionSigning" -> "signing"
      [] OTHER -> "none"

\* the error of a loop whose maximum wait is exceeded:
\* "update failed due to timeout",
\* "await validation timeout after %v, maximum allowed time is %v",
\* "await signing timeout"
TimeoutError(l, elapsed) ==
    CASE l = "edge" -> <<"update", "failed", "due", "to", "timeout">>
      [] l = "validation" ->
            <<"await", "validation", "timeout", "after", ToString(elapsed), ",",
              "maximum", "allowed", "time", "is", ToString(maxAwaitTime)>>
      [] OTHER -> <<"await", "signing", "timeout">>

\* a bug: the Edge error of a failed update ends with the backend message
FailedErrorBare(l, data) ==
    CASE l = "edge" -> <<"update", "failed", "due", "to">> \o Words(data.message)
      [] l = "validation" ->
            <<"not", "valid", ",", "validation", "url", ":">> \o Words(data.url)
      [] OTHER ->
            <<"extension", "won't", "be", "signed", "automatically", ",", "version", "detail",
              ":", "{", "Status:", "disabled", "URL:">> \o Words(data.url) \o <<"}">>

\* the error of a loop whose backend reported the terminal failure:
\* "update failed due to %s, full error %+v" with the message and the whole
\* status response, "not valid, validation url: %s",
\* "extension won't be signed automatically, version detail: %+v"
FailedError(l, data) ==
    CASE l = "edge" ->
            <<"update", "failed", "due", "to">> \o Words(data.message)
                \o <<",", "full", "error", "&{", "Status:", StatusString(StatusFailed),
                     "Message:">> \o Words(data.message)
                \o <<"Errors:", "[">> \o data.errors \o <<"]", "}">>
      [] l = "validation" ->
            <<"not", "valid", ",", "validation", "url", ":">> \o Words(data.url)
      [] OTHER ->
            <<"extension", "won't", "be", "signed", "automatically", ",", "version", "detail",
              ":", "{", "Status:", "disabled", "URL:">> \o Words(data.url) \o <<"}">>

\* err.Error() of the error a loop returned after elapsed ticks
ErrorText(e, elapsed) ==
    CASE e.kind = "timeout" -> TimeoutError(LoopOfStep(e.step), elapsed)
      [] e.kind = "failed" -> FailedError(LoopOfStep(e.step), e.data)
      [] OTHER -> <<e.step, e.kind>>

(***************************************************************************)
(* Invocations.                                                            *)
(***************************************************************************)
\* the deadline the caller works under, a clock value; no verb has a
\* parameter that receives it
NoDeadline == [set |-> FALSE, at |-> 0]
CallerDeadlines == {[set |-> TRUE, at |-> MaxQueryDur]}

DefaultArgs ==
    [appID |-> "app", RetryTimeout |-> 0, WaitStatusTimeout |-> 0,
     manifest |-> CHOOSE m \in Manifests : m.readable /\ m.applicationsID # "" /\ m.version # "",
     sourcepath |-> "", channel |-> ChannelUnlisted, percentage |-> NoPercentage,
     deadline |-> NoDeadline, edgeGen |-> APIVersionV1, tokenEndpoint |-> "issuing"]

\* the client configurations of an Edge store: generation 1 against a token
\* endpoint that issues tokens or rejects the credentials, or generation 2
EdgeConfigs ==
    {[gen |-> APIVersionV1, tokenEndpoint |-> "issuing"],
     [gen |-> APIVersionV1, tokenEndpoint |-> "rejecting"],
     [gen |-> APIVersionV1_1, tokenEndpoint |-> "issuing"]}

\* Update is invoked with every pair of timeouts under the default
\* configuration, and with the default timeouts under every configuration
EdgeUpdateArgs ==
    {[DefaultArgs EXCEPT !.RetryTimeout = r, !.WaitStatusTimeout = w] :
        r \in {0, RetryTicks + 1}, w \in {0, AwaitTicks - 1}}
    \cup {[DefaultArgs EXCEPT !.edgeGen = c.gen, !.tokenEndpoint = c.tokenEndpoint] :
            c \in EdgeConfigs}

EdgePublishArgs ==
    {[DefaultArgs EXCEPT !.edgeGen = c.gen, !.tokenEndpoint = c.tokenEndpoint] :
        c \in EdgeConfigs}

ChromeArgs == {[DefaultArgs EXCEPT !.tokenEndpoint = e] : e \in TokenEndpoints}

FirefoxArgs ==
    {[DefaultArgs EXCEPT !.manifest = m, !.sourcepath = sp] :
        m \in Manifests, sp \in {"", "source.zip"}}

FirefoxUpdateArgs ==
    {[a EXCEPT !.channel = c] : a \in FirefoxArgs, c \in {ChannelListed, ChannelUnlisted}}

\* Sign is invoked on either channel without a source archive, and on the
\* unlisted channel with one: attaching the source does not depend on the
\* channel
FirefoxSignArgs ==
    {a \in FirefoxUpdateArgs : a.sourcepath = "" \/ a.channel = ChannelUnlisted}

ChromePublishArgs ==
    {[DefaultArgs EXCEPT !.percentage = p] : p \in Percentages}

Invocations ==
    {<<"edgeUpdate", a>> : a \in EdgeUpdateArgs}
    \cup {<<"ffInsert", a>> : a \in FirefoxArgs}
    \cup {<<"ffUpdate", a>> : a \in FirefoxUpdateArgs}
    \cup {<<"ffSign", a>> : a \in FirefoxSignArgs}
    \cup {<<v, a>> : v \in {"chromeV1Publish", "chromePublish", "chromeV2Publish"},
                     a \in ChromePublishArgs}
    \cup {<<v, a>> : v \in ChromeUploadVerbs \cup ChromePublishVerbs, a \in ChromeArgs}
    \cup {<<"edgePublish", a>> : a \in EdgePublishArgs}
    \cup {<<v, a>> : v \in ChromeStatusVerbs, a \in ChromeArgs}
    \cup {<<"ffStatus", a>> : a \in {[DefaultArgs EXCEPT !.appID = i] : i \in {"app", "app2"}}}
    \cup {<<v, [DefaultArgs EXCEPT !.deadline = d]>> :
            v \in {"edgeUpdate", "ffInsert", "ffSign"}, d \in CallerDeadlines}

Init ==
    /\ \E inv \in Invocations :
        /\ verb = inv[1]
        /\ args = inv[2]
    /\ pc = "start"
    /\ now = 0
    /\ startTime = 0
    /\ calls = <<>>
    /\ polls = [l \in Loops |-> <<>>]
    /\ sleeps = [l \in Loops |-> 0]
    /\ loopState = [l \in Loops |-> "idle"]
    /\ loopEntered = [l \in Loops |-> 0]
    /\ loopLeft = [l \in Loops |-> 0]
    /\ handle = [operationID |-> "", uuid |-> "", versionID |-> "", downloadURL |-> "",
                 location |-> "", accessToken |-> 0]
    /\ wire = <<>>
    /\ files = [f \in FileRoles |-> "unopened"]
    /\ result = NotReturned

Next ==
    \/ EdgeUpdateUpload
    \/ EdgeUpdateCheck
    \/ EdgeUpdateReply
    \/ EdgeUpdateSleep
    \/ InsertUpload
    \/ awaitUploadValidationCheck
    \/ awaitUploadValidationReply
    \/ awaitUploadValidationSleep
    \/ InsertCreateAddon
    \/ InsertAttachSource
    \/ UpdateUpload
    \/ UpdateCreateVersion
    \/ UpdateAttachSource
    \/ SignHasVersion
    \/ SignIsSigned
    \/ SignUpload
    \/ SignCreateVersion
    \/ SignAttachSource
    \/ awaitVersionSigningCheck
    \/ awaitVersionSigningReply
    \/ awaitVersionSigningSleep
    \/ SignSigned
    \/ downloadSignedDetail
    \/ downloadSignedFetch
    \/ StoreV1Publish
    \/ StorePublish
    \/ StoreV2Publish
    \/ PublishRequest
    \/ EdgePublishExtension
    \/ EdgePublishStatus
    \/ StoreV1Insert
    \/ StoreV1Update
    \/ StoreInsert
    \/ StoreUpdate
    \/ StoreV2Upload
    \/ ChromeUploadRequest
    \/ StoreV1Status
    \/ StoreV2Status
    \/ ChromeStatusRequest
    \/ FirefoxStatus

Spec == Init /\ [][Next]_vars

\* the single thread of control runs to completion: a step that can be
\* taken is eventually taken
FairSpec == Init /\ [][Next]_vars /\ WF_vars(Next)

(***************************************************************************)
(* The documented status vocabularies, normalised to a phase.              *)
(***************************************************************************)
\* Edge operation status: InProgress, Succeeded, Failed
EdgePhase(reply) ==
    CASE reply.kind = "none" -> "None"
      [] reply.kind \in {"sendErr", "authErr"} -> "Error"
      [] reply.body.status = "InProgress" -> "Pending"
      [] reply.body.status = "Succeeded" -> "Succeeded"
      [] reply.body.status = "Failed" -> "Failed"
      [] OTHER -> "Unknown"

\* AMO upload detail: processed / valid
ValidationPhase(reply) ==
    CASE reply.kind = "none" -> "None"
      [] reply.kind = "err" -> "Error"
      [] ~reply.Processed -> "Pending"
      [] reply.Valid -> "Succeeded"
      [] OTHER -> "Failed"

\* AMO file status: unreviewed, public, disabled
SigningPhase(reply) ==
    CASE reply.kind = "none" -> "None"
      [] reply.kind = "err" -> "Error"
      [] reply.FileStatus = "unreviewed" -> "Pending"
      [] reply.FileStatus = "public" -> "Succeeded"
      [] reply.FileStatus = "disabled" -> "Failed"
      [] OTHER -> "Unknown"

Phase(l, reply) ==
    CASE l = "edge" -> EdgePhase(reply)
      [] l = "validation" -> ValidationPhase(reply)
      [] l = "signing" -> SigningPhase(reply)

\* the phase of the i-th status query of loop l
PhaseAt(l, i) == Phase(l, polls[l][i].reply)

\* the configured maximum-await and retry interval of loop l
MaxAwaitOf(l) == IF l = "edge" THEN EdgeWaitStatusTimeout ELSE maxAwaitTime
RetryOf(l) == IF l = "edge" THEN EdgeRetryTimeout ELSE retryInterval

\* the first k-1 queries of loop l were answered Pending and the k-th Succeeded
PendingThenSucceeded(l, k) ==
    /\ k \in 1..Len(polls[l])
    /\ PhaseAt(l, k) = "Succeeded"
    /\ \A i \in 1..(k - 1) : PhaseAt(l, i) = "Pending"

\* the status-query calls of loop l in the call log
StatusCalls(l) ==
    CASE l = "edge" -> CallsOf("EdgeUploadStatus")
      [] l = "validation" -> CallsOf("UploadDetail")
      [] l = "signing" -> {i \in CallsOf("VersionDetail") : calls[i].ret = InPolls}

\* C1: in every polling loop, N Pending answers followed by one Succeeded
\* answer make the loop issue exactly N+1 status queries and return success;
\* Edge Update returns that Succeeded response as its result.
C1_PendingThenSucceededReturns ==
    \A l \in Loops : \A k \in 1..MaxQueries :
        PendingThenSucceeded(l, k) =>
            /\ Len(polls[l]) = k
            /\ Cardinality(StatusCalls(l)) = k
            /\ loopState[l] = "ok"
            /\ l = "edge" =>
                /\ result.status = "ok"
                /\ result.value.Status = StatusSucceeded
                /\ result.value = DecodeUploadStatusResponse(polls[l][k].reply.body).val

\* C1 witness: the Edge loop returned the Succeeded response after two
\* Pending answers
C1_Witness_Edge ==
    /\ PendingThenSucceeded("edge", 3)
    /\ result.status = "ok"

(***************************************************************************)
(* C2                                                                      *)
(***************************************************************************)
\* every answer loop l has received so far was Pending
AllPending(l) ==
    \A i \in 1..Len(polls[l]) : PhaseAt(l, i) \in {"Pending", "None"}

C2_Safety ==
    \A l \in Loops :
        /\ (AllPending(l) /\ loopState[l] \notin {"idle", "running"}) =>
                /\ loopState[l] = "timeout"
                /\ result.status = "err"
                /\ result.err.kind = "timeout"
        /\ loopState[l] = "timeout" =>
                /\ loopLeft[l] - loopEntered[l] > MaxAwaitOf(l)
                /\ pc = "done"

\* C2: when every status query is answered Pending the loop never returns
\* success; it returns the timeout error once more than the maximum-await
\* has elapsed since the loop started, issues no status query after that,
\* and it does not run forever.
C2_AllPendingTimesOut ==
    /\ []C2_Safety
    /\ [][\A l \in Loops : loopState[l] = "timeout" => (polls' = polls /\ calls' = calls)]_vars
    /\ \A l \in Loops :
          (loopState[l] = "running") ~> (loopState[l] # "running" \/ ~AllPending(l))

\* C2 witness: a loop that saw two Pending answers and nothing else has
\* returned the timeout error
C2_Witness ==
    \E l \in Loops :
        /\ loopState[l] = "timeout"
        /\ Len(polls[l]) >= 2
        /\ \A i \in 1..Len(polls[l]) : PhaseAt(l, i) = "Pending"
        /\ result.err.kind = "timeout"

(***************************************************************************)
(* C3                                                                      *)
(***************************************************************************)
\* C3: the start instant of a loop is taken once, when the loop is entered;
\* whatever the backend answers, no status query starts later than the
\* maximum-await after it, and the loop has returned at the latest one
\* query duration plus one retry interval after the maximum-await.
C3_BoundedWait ==
    \A l \in Loops :
        /\ loopState[l] = "running" => startTime = loopEntered[l]
        /\ \A i \in 1..Len(polls[l]) : polls[l][i].at - loopEntered[l] <= MaxAwaitOf(l)
        /\ loopState[l] = "running" =>
              now - loopEntered[l] <= MaxAwaitOf(l) + MaxQueryDur + RetryOf(l)
        /\ loopState[l] \notin {"idle", "running"} =>
              loopLeft[l] - loopEntered[l] <= MaxAwaitOf(l) + MaxQueryDur + RetryOf(l)

\* C3 witness: a loop has returned after more than the maximum-await, having
\* seen an answer that is none of Pending / Succeeded / Failed
C3_Witness ==
    \E l \in Loops :
        /\ loopState[l] = "timeout"
        /\ loopLeft[l] - loopEntered[l] > MaxAwaitOf(l)
        /\ \E i \in 1..Len(polls[l]) : PhaseAt(l, i) = "Unknown"
        /\ Len(polls[l]) >= 3

(***************************************************************************)
(* C4                                                                      *)
(***************************************************************************)
\* C4: a status value outside the documented set (an absent one included) is
\* an error of the polling operation: the query that received it is the last
\* one and the operation returned an error.
C4_UnknownStatusIsError ==
    \A l \in Loops : \A i \in 1..Len(polls[l]) :
        PhaseAt(l, i) = "Unknown" =>
            /\ i = Len(polls[l])
            /\ loopState[l] = "error"
            /\ result.status = "err"

(***************************************************************************)
(* C5                                                                      *)
(***************************************************************************)
\* C5: a Succeeded or Failed answer ends the loop at once: the query that
\* received it is the last one, the loop has returned, and no sleep follows
\* it.
C5_TerminalReturnsAtOnce ==
    \A l \in Loops : \A i \in 1..Len(polls[l]) :
        PhaseAt(l, i) \in {"Succeeded", "Failed"} =>
            /\ i = Len(polls[l])
            /\ loopState[l] = (IF PhaseAt(l, i) = "Succeeded" THEN "ok" ELSE "failed")
            /\ sleeps[l] <= i - 1
            /\ loopLeft[l] <= polls[l][i].at + MaxQueryDur
            /\ pc \notin {"edge_check", "edge_wait", "edge_sleep"}
            /\ l = "validation" => pc \notin {"val_check", "val_wait", "val_sleep"}
            /\ l = "signing" => pc \notin {"sign_check", "sign_wait", "sign_sleep"}

\* C5 witness: a loop returned on a Failed answer that came after a Pending
\* one and a sleep
C5_Witness ==
    \E l \in Loops :
        /\ Len(polls[l]) = 2
        /\ PhaseAt(l, 1) = "Pending"
        /\ PhaseAt(l, 2) = "Failed"
        /\ sleeps[l] = 1
        /\ loopState[l] = "failed"

(***************************************************************************)
(* C6                                                                      *)
(***************************************************************************)
\* the structured error list of a status response
BackendErrors(l, reply) == IF l = "edge" THEN reply.body.errors ELSE reply.Validation

\* C6: a Failed answer makes the polling operation return an error that
\* carries the backend's structured error list (and, for Edge, its message)
\* unchanged.
C6_FailedCarriesBackendErrors ==
    \A l \in {"edge", "validation"} : \A i \in 1..Len(polls[l]) :
        PhaseAt(l, i) = "Failed" =>
            /\ result.status = "err"
            /\ "errors" \in result.err.data.carries
            /\ result.err.data.errors = BackendErrors(l, polls[l][i].reply)
            /\ l = "edge" =>
                /\ "message" \in result.err.data.carries
                /\ result.err.data.message = polls[l][i].reply.body.message

(***************************************************************************)
(* C7                                                                      *)
(***************************************************************************)
\* the backend listed the package's version and reported its file public
AlreadySigned ==
    /\ verb = "ffSign"
    /\ Len(calls) >= 2
    /\ calls[1].op = "VersionsList" /\ calls[1].ret = "listed"
    /\ calls[2].op = "VersionDetail" /\ calls[2].ret = "public"

UploadOps == {"CreateUpload", "UploadDetail", "CreateVersion", "AttachSourceToVersion"}

\* C7: Sign of a version that is already listed and already public makes no
\* upload call and runs no polling loop; what follows the check is the
\* download (version detail, then the signed file), and Sign does not return
\* before the download was started.
C7_ResignSkipsUpload ==
    AlreadySigned =>
        /\ \A i \in 1..Len(calls) : calls[i].op \notin UploadOps
        /\ \A l \in Loops : polls[l] = <<>> /\ loopState[l] = "idle"
        /\ Len(calls) <= 4
        /\ Len(calls) >= 3 => calls[3].op = "VersionDetail"
        /\ Len(calls) >= 4 => calls[4].op = "DownloadSignedByURL"
        /\ pc \in {"download", "download_fetch", "done"}
        /\ pc = "done" => Len(calls) >= 3

\* C7 witness: the re-sign finished with the signed file written
C7_Witness ==
    /\ AlreadySigned
    /\ pc = "done"
    /\ result.status = "ok"
    /\ Len(calls) = 4

(***************************************************************************)
(* C8                                                                      *)
(***************************************************************************)
\* C8: every CreateUpload that Sign issues names the unlisted channel.
C8_SignUploadsUnlisted ==
    verb = "ffSign" =>
        \A i \in CallsOf("CreateUpload") : calls[i].arg = ChannelUnlisted

\* C8 witness: Sign has uploaded while the caller's channel is the listed one
C8_Witness ==
    /\ verb = "ffSign"
    /\ args.channel = ChannelListed
    /\ CallsOf("CreateUpload") # {}

(***************************************************************************)
(* C9                                                                      *)
(***************************************************************************)
\* C9: a Publish with a rollout percentage below 0 or above 100 sends no
\* request at all, the token exchange included, and returns an error.
C9_BadPercentageSendsNothing ==
    (verb \in ChromePublishVerbs /\ args.percentage.set
        /\ (args.percentage.value < 0 \/ args.percentage.value > 100)) =>
            /\ calls = <<>>
            /\ pc = "done" => result.status = "err"

(***************************************************************************)
(* C10                                                                     *)
(***************************************************************************)
\* Insert without a source: the upload was accepted and the first status
\* query was answered processed and valid; Insert has returned
InsertAccepted ==
    /\ verb = "ffInsert"
    /\ args.sourcepath = ""
    /\ Len(calls) >= 2
    /\ calls[1].op = "CreateUpload" /\ calls[1].ret = "ok"
    /\ Len(polls["validation"]) >= 1
    /\ PhaseAt("validation", 1) = "Succeeded"
    /\ pc = "done"

\* C10 as stated: Insert returns no error after exactly two backend calls,
\* the upload and one status query.
C10_TwoCalls ==
    InsertAccepted =>
        /\ result.status = "ok"
        /\ Len(calls) = 2

\* C10 amended: Insert makes exactly three backend calls, the upload, one
\* status query and the creation of the add-on, and returns no error exactly
\* when the creation succeeded.
C10_ThreeCalls ==
    InsertAccepted =>
        /\ Len(calls) = 3
        /\ calls[2].op = "UploadDetail"
        /\ calls[3].op = "CreateAddon"
        /\ result.status = "ok" <=> calls[3].ret = "ok"

\* C10 witness: such an Insert returned no error
C10_Witness ==
    /\ InsertAccepted
    /\ result.status = "ok"

(***************************************************************************)
(* C11                                                                     *)
(***************************************************************************)
FirefoxUploadVerbs == {"ffInsert", "ffUpdate", "ffSign"}

\* C11: when a validation status query is answered processed=true,
\* valid=false, the verb returns an error whose message contains the
\* validation URL of that answer, and that query is the last backend call.
C11_ValidationFailureNamesURL ==
    verb \in FirefoxUploadVerbs =>
        \A i \in 1..Len(polls["validation"]) :
            PhaseAt("validation", i) = "Failed" =>
                /\ i = Len(polls["validation"])
                /\ Cardinality(CallsOf("UploadDetail")) = i
                /\ Last(calls).op = "UploadDetail"
                /\ pc = "done"
                /\ result.status = "err"
                /\ "url" \in result.err.data.carries
                /\ result.err.data.url = polls["validation"][i].reply.URL

\* C11 witness: Update failed on the second validation answer and the error
\* names the URL the backend gave
C11_Witness ==
    /\ verb = "ffUpdate"
    /\ Len(polls["validation"]) = 2
    /\ PhaseAt("validation", 2) = "Failed"
    /\ result.status = "err"
    /\ result.err.data.url \in ValidationURLs

(***************************************************************************)
(* C12                                                                     *)
(***************************************************************************)
\* the position of a backend call in the step order of Insert and Update
StepRank(op) ==
    CASE op = "CreateUpload" -> 1
      [] op = "UploadDetail" -> 2
      [] op \in {"CreateAddon", "CreateVersion"} -> 3
      [] op = "AttachSourceToVersion" -> 4
      [] OTHER -> 0

\* the calls so far follow the step order
InStepOrder ==
    /\ \A i \in 1..Len(calls) : StepRank(calls[i].op) > 0
    /\ \A i \in 1..Len(calls) : \A j \in (i + 1)..Len(calls) :
          StepRank(calls[i].op) <= StepRank(calls[j].op)

\* the validation loop returned success on its last answer
ValidationSucceeded ==
    /\ loopState["validation"] = "ok"
    /\ polls["validation"] # <<>>
    /\ Phase("validation", Last(polls["validation"]).reply) = "Succeeded"

\* C12: the calls of Insert are, in this order, the upload, the validation
\* queries, CreateAddon and the source attachment; CreateAddon follows a
\* processed and valid answer, and the source is attached only after
\* CreateAddon succeeded and only when a source path was given.
C12_InsertOrder ==
    verb = "ffInsert" =>
        /\ InStepOrder
        /\ \A i \in 1..Len(calls) : calls[i].op # "CreateVersion"
        /\ \A i \in CallsOf("UploadDetail") : calls[1].op = "CreateUpload" /\ calls[1].ret = "ok"
        /\ \A i \in CallsOf("CreateAddon") :
              /\ i > 1
              /\ calls[i - 1].op = "UploadDetail"
              /\ ValidationSucceeded
        /\ \A i \in CallsOf("AttachSourceToVersion") :
              /\ args.sourcepath # ""
              /\ i > 1
              /\ calls[i - 1].op = "CreateAddon"
              /\ calls[i - 1].ret = "ok"

\* C12 witness: an Insert with a source ran all four steps after a Pending
\* answer and returned no error
C12_Witness ==
    /\ verb = "ffInsert"
    /\ pc = "done"
    /\ result.status = "ok"
    /\ Len(polls["validation"]) >= 2
    /\ CallsOf("AttachSourceToVersion") # {}

(***************************************************************************)
(* C13                                                                     *)
(***************************************************************************)
\* C13: the calls of Update are, in this order, the upload, the validation
\* queries, CreateVersion and the source attachment; CreateVersion follows
\* a successful validation and names the UUID of the upload, and the source
\* is attached to the version id CreateVersion returned, only when a source
\* path was given.
C13_UpdateOrder ==
    verb = "ffUpdate" =>
        /\ InStepOrder
        /\ \A i \in 1..Len(calls) : calls[i].op # "CreateAddon"
        /\ \A i \in CallsOf("UploadDetail") :
              /\ calls[1].op = "CreateUpload" /\ calls[1].ret = "ok"
              /\ calls[i].arg = handle.uuid
        /\ \A i \in CallsOf("CreateVersion") :
              /\ i > 1
              /\ calls[i - 1].op = "UploadDetail"
              /\ ValidationSucceeded
              /\ handle.uuid \in UUIDs
              /\ calls[i].arg = handle.uuid
        /\ \A i \in CallsOf("AttachSourceToVersion") :
              /\ args.sourcepath # ""
              /\ i > 1
              /\ calls[i - 1].op = "CreateVersion"
              /\ calls[i - 1].ret = "ok"
              /\ handle.versionID \in {Itoa(v) : v \in VersionIDs}
              /\ calls[i].arg = handle.versionID

\* C13 witness: an Update with a source ran all four steps after a Pending
\* answer and returned no error
C13_Witness ==
    /\ verb = "ffUpdate"
    /\ pc = "done"
    /\ result.status = "ok"
    /\ Len(polls["validation"]) >= 2
    /\ CallsOf("AttachSourceToVersion") # {}

(***************************************************************************)
(* C14                                                                     *)
(***************************************************************************)
\* the calls of downloadSigned
DownloadCalls ==
    CallsOf("DownloadSignedByURL")
    \cup {i \in CallsOf("VersionDetail") : calls[i].ret # InPolls}

\* C14: on the uploading path of Sign the signing loop starts only after
\* the validation loop returned success and the version was created, it has
\* its own start time and its own maximum-await, and the download starts
\* only after a signing query was answered public.
C14_SignPhasesInSequence ==
    (verb = "ffSign" /\ CallsOf("CreateUpload") # {}) =>
        /\ loopState["signing"] # "idle" =>
              /\ ValidationSucceeded
              /\ loopEntered["signing"] >= loopLeft["validation"]
              /\ \E c \in CallsOf("CreateVersion") :
                    /\ calls[c].ret = "ok"
                    /\ \A v \in StatusCalls("validation") : v < c
                    /\ \A q \in StatusCalls("signing") : c < q
              /\ \A i \in 1..Len(polls["signing"]) :
                    /\ polls["signing"][i].at >= loopEntered["signing"]
                    /\ polls["signing"][i].at - loopEntered["signing"] <= maxAwaitTime
        /\ loopState["signing"] = "idle" => polls["signing"] = <<>>
        /\ loopState["signing"] = "running" => startTime = loopEntered["signing"]
        /\ loopState["signing"] = "timeout" =>
              loopLeft["signing"] - loopEntered["signing"] > maxAwaitTime
        /\ loopState["validation"] = "timeout" =>
              loopLeft["validation"] - loopEntered["validation"] > maxAwaitTime
        /\ DownloadCalls # {} =>
              /\ loopState["signing"] = "ok"
              /\ Phase("signing", Last(polls["signing"]).reply) = "Succeeded"
              /\ \A d \in DownloadCalls : \A q \in StatusCalls("signing") : q < d

\* C14 witness: the validation phase took time, the signing phase then
\* queried later than one maximum-await after the start of the verb, was
\* answered public, and the artifact was downloaded
C14_Witness ==
    /\ verb = "ffSign"
    /\ loopLeft["validation"] > 0
    /\ loopState["signing"] = "ok"
    /\ \E i \in 1..Len(polls["signing"]) : polls["signing"][i].at > maxAwaitTime
    /\ CallsOf("DownloadSignedByURL") # {}

(***************************************************************************)
(* C15                                                                     *)
(***************************************************************************)
OrchestratorVerbs == {"ffInsert", "ffUpdate", "ffSign", "edgeUpdate", "edgePublish"}

\* answers of the backend that make a call a failed one
FailureAnswers == {"err", "sendErr", "badStatus", "readErr", "badBody"}

\* the backend call c was not answered with success
CallFailed(c) ==
    \/ c.ret \in FailureAnswers
    \/ c.op = "EdgePublishStatus" /\ c.ret = "Failed"

\* the last backend call is a status query of loop l
LastIsStatusCall(l) == calls # <<>> /\ Len(calls) \in StatusCalls(l)

\* C15: when a step of an orchestrator verb fails (a backend call, a status
\* query, a status answer of failure, a timeout), no later backend call is
\* made and the verb returns an error.
C15_FailFast ==
    verb \in OrchestratorVerbs =>
        /\ \A i \in 1..Len(calls) :
              CallFailed(calls[i]) =>
                  /\ i = Len(calls)
                  /\ pc = "done"
                  /\ result.status = "err"
        /\ \A l \in Loops : \A i \in 1..Len(polls[l]) :
              PhaseAt(l, i) \in {"Error", "Failed"} =>
                  /\ i = Len(polls[l])
                  /\ LastIsStatusCall(l)
                  /\ pc = "done"
                  /\ result.status = "err"
        /\ \A l \in Loops :
              loopState[l] = "timeout" =>
                  /\ LastIsStatusCall(l)
                  /\ pc = "done"
                  /\ result.status = "err"
                  /\ result.err.kind = "timeout"

(***************************************************************************)
(* C16                                                                     *)
(***************************************************************************)
\* the backend calls that are not the status query of a polling loop
OnceOps ==
    {"CreateUpload", "CreateAddon", "CreateVersion", "AttachSourceToVersion",
     "DownloadSignedByURL", "VersionsList", "EdgeUploadUpdate", "EdgePublishExtension",
     "EdgePublishStatus", "Authorize", "Publish", "ChromeUpload"}

\* the version detail requests made outside the signing loop: one by
\* isSigned, one by downloadSigned
DetailCalls == {i \in CallsOf("VersionDetail") : calls[i].ret # InPolls}

C17_DeadlineAbortsWait ==
    args.deadline.set =>
        /\ \A l \in Loops : \A i \in 1..Len(polls[l]) : polls[l][i].at <= args.deadline.at
        /\ now > args.deadline.at =>
              /\ pc = "done"
              /\ result.status = "err"
              /\ result.err.kind = "cancelled"

(***************************************************************************)
(* C18                                                                     *)
(***************************************************************************)
\* C18: when the verb has returned, every file handle it opened is closed.
C18_FilesClosedOnReturn ==
    pc = "done" => \A f \in FileRoles : files[f] \in {"unopened", "closed"}

(***************************************************************************)
(* C19                                                                     *)
(***************************************************************************)
\* C19: a verb that returned after one of its backend calls failed
\* (request not sent, disallowed status code, unreadable or undecodable
\* body, API error) returned an error.
C19_NoErrorSwallowed ==
    (pc = "done" /\ \E i \in 1..Len(calls) : calls[i].ret \in FailureAnswers) =>
        result.status = "err"

(***************************************************************************)
(* C20                                                                     *)
(***************************************************************************)
\* the upload was answered 200 with the failure state of the verb's API
EmbeddedFailure(c) ==
    /\ c.op = "ChromeUpload"
    /\ c.ret = IF verb = "chromeV2Upload" THEN "FAILED" ELSE "FAILURE"

\* C20: a Chrome upload answered 200 with an embedded failure state returns
\* an error, never a result.
C20_EmbeddedFailureIsError ==
    verb \in ChromeUploadVerbs =>
        \A i \in 1..Len(calls) :
            EmbeddedFailure(calls[i]) =>
                /\ pc = "done"
                /\ result.status = "err"
                /\ result.value = NoValue

\* C20 witness: a v2 Upload answered 200 with FAILED returned an error
C20_Witness ==
    /\ verb = "chromeV2Upload"
    /\ \E i \in 1..Len(calls) : EmbeddedFailure(calls[i])
    /\ result.status = "err"
    /\ result.err.kind = "uploadState"

(***************************************************************************)
(* C21                                                                     *)
(***************************************************************************)
\* the publish was answered 2xx with the failure state of its backend
EmbeddedPublishFailure(c) ==
    \/ c.op = "EdgePublishStatus" /\ c.ret = StatusString(StatusFailed)
    \/ c.op = "Publish" /\ verb = "chromeV2Publish" /\ c.ret \in {"REJECTED", "CANCELLED"}

\* C21: a Publish answered 2xx with an embedded failure state (Edge publish
\* status Failed, Chrome v2 item state REJECTED or CANCELLED) returns an
\* error, never a publish result.
C21_PublishFailureStateIsError ==
    \A i \in 1..Len(calls) :
        EmbeddedPublishFailure(calls[i]) =>
            /\ pc = "done"
            /\ result.status = "err"

(***************************************************************************)
(* C22                                                                     *)
(***************************************************************************)
\* the upload of Update was answered 202 with a Location header
UploadAccepted ==
    /\ calls # <<>>
    /\ calls[1].op = "EdgeUploadUpdate"
    /\ calls[1].ret = "accepted"
    /\ handle.location # ""

\* C22: the Edge upload yields a handle only when it was answered 202 with a
\* non-empty Location header, and the handle is that header value; in every
\* other case Update returns the error of the upload and no status query is
\* made.
C22_HandleOnlyFromAcceptedLocation ==
    (verb = "edgeUpdate" /\ pc # "start") =>
        /\ handle.operationID # "" <=> UploadAccepted
        /\ handle.operationID # "" => handle.operationID = handle.location
        /\ \A i \in CallsOf("EdgeUploadStatus") : calls[i].arg = handle.location
        /\ handle.operationID = "" =>
              /\ pc = "done"
              /\ result.status = "err"
              /\ result.err.step = "UploadUpdate"
              /\ CallsOf("EdgeUploadStatus") = {}
              /\ polls["edge"] = <<>>

\* C22 witness: the upload was answered 202 with the second operation id
\* and a status query was made for it
C22_Witness ==
    /\ verb = "edgeUpdate"
    /\ UploadAccepted
    /\ handle.operationID = "op2"
    /\ \E i \in CallsOf("EdgeUploadStatus") : calls[i].arg = "op2"

(***************************************************************************)
(* C23: the Chrome token request that is not answered by a usable token.   *)
(***************************************************************************)
ChromeVerbs == ChromeUploadVerbs \cup ChromePublishVerbs \cup ChromeStatusVerbs

\* the token endpoint answered with another status than 200, or with a body
\* that is not JSON
TokenRefused(e) ==
    /\ e.kind = "token"
    /\ e.reply.kind = "answer"
    /\ (e.reply.status # 200 \/ e.reply.body = "notJSON")

\* C23: when the token endpoint of a Chrome verb answers with a status other
\* than 200 or with a body that cannot be parsed, Authorize returns an error,
\* the verb returns that error, and the verb sends no API request: the
\* refused token request is the last thing on the wire.
C23_RefusedTokenSendsNothing ==
    verb \in ChromeVerbs =>
        \A i \in DOMAIN wire :
            TokenRefused(wire[i]) =>
                /\ ~wire[i].ok
                /\ i = Len(wire)
                /\ ApiEntries(wire) = {}
                /\ pc = "done"
                /\ result.status = "err"
                /\ result.err.kind = "Authorize"
                /\ \A j \in DOMAIN calls : calls[j].op = "Authorize"

\* StoreV2.Status has returned the error of a token request answered 400
C23_Witness ==
    /\ verb = "chromeV2Status"
    /\ pc = "done"
    /\ Len(wire) = 1
    /\ TokenRefused(wire[1])
    /\ wire[1].reply.status = 400
    /\ result.status = "err"

(***************************************************************************)
(* C24: one token exchange per authenticated request.                      *)
(***************************************************************************)
\* the invocations whose requests are authorized by a bearer token
BearerInvocation ==
    \/ verb \in ChromeVerbs
    \/ verb \in {"edgeUpdate", "edgePublish"} /\ args.edgeGen = APIVersionV1

\* the tokens in the Bearer headers of a request
BearerTokens(e) ==
    {e.headers[h].cred.token : h \in {k \in DOMAIN e.headers : e.headers[k].scheme = "Bearer"}}

\* C24: tokens are never cached.  Every API request of a bearer-token backend
\* is directly preceded on the wire by a token exchange of its own, which
\* succeeded and whose token is the one the request carries; an exchange is
\* never followed by another exchange, so no request waits on an old token;
\* no token is carried by two requests; hence k requests have k exchanges.
\* This covers every status query of the Edge generation 1 polling loop.
C24_TokensNeverCached ==
    BearerInvocation =>
        /\ \A i \in ApiEntries(wire) :
              /\ i > 1
              /\ wire[i - 1].kind = "token"
              /\ wire[i - 1].ok
              /\ BearerTokens(wire[i]) \subseteq {wire[i - 1].token}
        /\ \A i \in TokenEntries(wire) : i < Len(wire) => wire[i].ok /\ wire[i + 1].kind = "api"
        /\ \A i, j \in ApiEntries(wire) :
              (i # j /\ wire[i - 1].token # 0) => BearerTokens(wire[i]) # BearerTokens(wire[j])
        /\ Cardinality(ApiEntries(wire))
              = Cardinality({i \in TokenEntries(wire) : i < Len(wire)})

\* Edge generation 1 has uploaded and queried the status twice: three
\* requests, three exchanges, three tokens
C24_Witness ==
    /\ verb = "edgeUpdate"
    /\ args.edgeGen = APIVersionV1
    /\ Cardinality(CallsOf("EdgeUploadStatus")) = 2
    /\ Cardinality(ApiEntries(wire)) = 3
    /\ Cardinality(TokenEntries(wire)) = 3
    /\ Cardinality(UNION {BearerTokens(wire[i]) : i \in ApiEntries(wire)}) = 3

(***************************************************************************)
(* C25: the authorization header of every API request.                     *)
(***************************************************************************)
\* the scheme of the backend the invocation talks to
BackendScheme ==
    IF verb \in ChromeVerbs THEN "Bearer"
    ELSE IF verb \in {"edgeUpdate", "edgePublish"}
    THEN (IF args.edgeGen = APIVersionV1 THEN "Bearer" ELSE "ApiKey")
    ELSE "JWT"

HeadersNamed(e, name) == {h \in DOMAIN e.headers : e.headers[h].name = name}

\* C25: every API request that goes out carries exactly one Authorization
\* header, of the scheme of its backend; Edge generation 2 adds exactly one
\* X-ClientID header; besides these the request has no header but
\* Content-Type.
C25_OneAuthorizationHeader ==
    \A i \in ApiEntries(wire) :
        LET e == wire[i]
        IN  /\ Cardinality(HeadersNamed(e, "Authorization")) = 1
            /\ \A h \in HeadersNamed(e, "Authorization") : e.headers[h].scheme = BackendScheme
            /\ Cardinality(HeadersNamed(e, "X-ClientID"))
                  = (IF BackendScheme = "ApiKey" THEN 1 ELSE 0)
            /\ \A h \in DOMAIN e.headers :
                  e.headers[h].name \in {"Authorization", "X-ClientID", "Content-Type"}

(***************************************************************************)
(* C26: Edge generation 2 attaches its auth without the network.           *)
(***************************************************************************)
\* the headers V1_1Config.SetRequestHeaders leaves on a new request
StaticKeyHeaders ==
    <<Header("Authorization", "ApiKey", [NoCredential EXCEPT !.key = EdgeAPIKey]),
      Header("X-ClientID", "", [NoCredential EXCEPT !.key = EdgeClientID])>>

\* C26: with the generation 2 (v1.1) configuration, attaching the auth makes
\* no network round trip and cannot fail: the wire shows no token exchange,
\* no step ends with an authorization error, and every request carries
\* Authorization: ApiKey <key> and X-ClientID: <id> and, of its own, at most
\* the Content-Type the caller adds afterwards.
C26_StaticKeyNeedsNoRoundTrip ==
    (verb \in {"edgeUpdate", "edgePublish"} /\ args.edgeGen = APIVersionV1_1) =>
        /\ TokenEntries(wire) = {}
        /\ \A i \in DOMAIN calls : calls[i].ret # "authErr"
        /\ result.status = "err" => result.err.kind # "authErr"
        /\ \A l \in Loops : \A k \in DOMAIN polls[l] : polls[l][k].reply # AuthErrReply
        /\ \A i \in DOMAIN wire :
              /\ Len(wire[i].headers) \in {2, 3}
              /\ SubSeq(wire[i].headers, 1, 2) = StaticKeyHeaders
              /\ Len(wire[i].headers) = 3 => wire[i].headers[3].name = "Content-Type"
        /\ Len(wire) = Cardinality({i \in DOMAIN calls :
                                      calls[i].op \in {"EdgeUploadUpdate", "EdgeUploadStatus",
                                                       "EdgePublishExtension", "EdgePublishStatus"}})

\* generation 2 has uploaded and queried the status: two requests on the
\* wire and nothing else
C26_Witness ==
    /\ verb = "edgeUpdate"
    /\ args.edgeGen = APIVersionV1_1
    /\ CallsOf("EdgeUploadStatus") # {}
    /\ Len(wire) = 2
    /\ TokenEntries(wire) = {}

(***************************************************************************)
(* C27: the JWT header of Firefox.                                         *)
(***************************************************************************)
FirefoxVerbs == {"ffInsert", "ffUpdate", "ffSign", "ffStatus"}

\* the header of claims iss = clientID, iat = t, exp = t + 300 seconds
JWTOf(clientID, clientSecret, t) ==
    [name |-> "Authorization", scheme |-> "JWT",
     cred |-> [token |-> 0, key |-> "", iss |-> clientID, iat |-> t, exp |-> t + 300,
               secret |-> clientSecret]]

\* C27: every Firefox request carries "JWT <token>" where the token is built
\* from exactly iss = clientID, iat = now() and exp = iat + 300 seconds and
\* signed with the client secret, now() being the clock read when the
\* request is prepared; requests prepared at the same time by the same
\* client carry identical headers, and each request has a header computed
\* for its own time, so requests of different times carry different ones.
C27_JWTClaims ==
    verb \in FirefoxVerbs =>
        /\ \A i \in DOMAIN wire :
              /\ wire[i].kind = "api"
              /\ wire[i].headers = <<JWTOf(FirefoxClientID, FirefoxClientSecret, wire[i].at)>>
        /\ \A i, j \in DOMAIN wire :
              (wire[i].at = wire[j].at) <=> (wire[i].headers = wire[j].headers)
        /\ Len(wire) = Len(calls)

\* Sign has sent requests at two different times, with different headers
C27_Witness ==
    /\ verb = "ffSign"
    /\ \E i, j \in DOMAIN wire :
          /\ wire[i].at < wire[j].at
          /\ wire[i].headers[1].cred.iat = wire[i].at
          /\ wire[j].headers[1].cred.exp = wire[j].at + 300
          /\ wire[i].headers # wire[j].headers

(***************************************************************************)
(* C28: the Status verb asks once.                                         *)
(***************************************************************************)
StatusVerbs == ChromeStatusVerbs \cup {"ffStatus"}

\* the status requests the invocation has sent
StatusRequests == CallsOf("Status") \cup CallsOf("ChromeStatus")

\* C28: a Status verb sends one status request and no second one, whatever
\* the answer: it enters no polling loop, never sleeps, and when it has
\* returned, its result is the answer of that one request, or the error of
\* that request (or of the token request before it, after which no status
\* request is sent at all).
C28_StatusAsksOnce ==
    verb \in StatusVerbs =>
        /\ Cardinality(StatusRequests) <= 1
        /\ Cardinality(ApiEntries(wire)) = Cardinality(StatusRequests)
        /\ \A l \in Loops : sleeps[l] = 0 /\ polls[l] = <<>> /\ loopState[l] = "idle"
        /\ now = 0
        /\ pc = "done" =>
              IF StatusRequests = {}
              THEN /\ result.status = "err"
                   /\ result.err.kind = "Authorize"
              ELSE LET c == calls[Len(calls)]
                   IN  /\ Len(calls) \in StatusRequests
                       /\ c.arg = args.appID
                       /\ IF c.ret \in {"sendErr", "badStatus", "badBody"}
                          THEN result.status = "err" /\ result.err.kind = c.ret
                          ELSE \/ /\ result.status = "ok"
                                  /\ result.value.ID = args.appID
                                  /\ verb = "ffStatus" => result.value.Status = c.ret
                               \/ /\ verb = "ffStatus"
                                  /\ result.status = "err"
                                  /\ result.err.kind = "noVersions"

\* StoreV2.Status has returned the answer of its one request
C28_Witness ==
    /\ verb = "chromeV2Status"
    /\ pc = "done"
    /\ Cardinality(StatusRequests) = 1
    /\ result.status = "ok"

\* Store.Status of Firefox has returned the answer of its one request
C28_Witness_Firefox ==
    /\ verb = "ffStatus"
    /\ pc = "done"
    /\ Cardinality(StatusRequests) = 1
    /\ result.status = "ok"
    /\ result.value.Status = "incomplete"

(***************************************************************************)
(* C29: the timeout error and the failure error of a polling loop.         *)
(***************************************************************************)
\* the longest a loop of the model may have run when it times out
MaxElapsed == AwaitTicks + RetryTicks + MaxQueryDur + 2

\* the backend data a terminal failure of the loop may embed in its error
FailedData(l) ==
    CASE l = "edge" -> {ErrData({"message", "errors"}, m, e, "") :
                            m \in EdgeMessages, e \in EdgeErrorLists}
      [] l = "validation" -> {ErrData({"url"}, "", <<>>, u) : u \in ValidationURLs \cup {""}}
      [] OTHER -> {ErrData({"url"}, "", <<>>, u) : u \in SignedURLs \cup {""}}

TimeoutTexts(l) == {TimeoutError(l, t) : t \in 0..MaxElapsed}
FailedTexts(l) == {FailedError(l, d) : d \in FailedData(l)}

\* the text of the error the invocation returned
ResultText == ErrorText(result.err, now - startTime)

\* C29: the caller can tell the error of an exceeded maximum wait from the
\* error of a terminal Failed answer: when a loop has timed out, the text of
\* the returned error is a timeout text and differs from the failure text of
\* every message the backend may send; when the backend reported the failure,
\* the text is a failure text and differs from every timeout text.
C29_TimeoutDistinctFromFailed ==
    \A l \in Loops :
        /\ (loopState[l] = "timeout" /\ pc = "done") =>
              /\ result.status = "err"
              /\ ResultText \in TimeoutTexts(l)
              /\ ResultText \notin FailedTexts(l)
        /\ (loopState[l] = "failed" /\ pc = "done") =>
              /\ result.status = "err"
              /\ ResultText \in FailedTexts(l)
              /\ ResultText \notin TimeoutTexts(l)

\* the Edge backend reported Failed with the message "timeout"
C29_Witness ==
    /\ verb = "edgeUpdate"
    /\ pc = "done"
    /\ loopState["edge"] = "failed"
    /\ result.err.data.message = "timeout"
    /\ ResultText # TimeoutError("edge", 0)

\* the Edge loop has timed out
C29_Witness_Timeout ==
    /\ verb = "edgeUpdate"
    /\ pc = "done"
    /\ loopState["edge"] = "timeout"
    /\ ResultText = TimeoutError("edge", 0)

(***************************************************************************)
(* C30: the handle of every status query.                                  *)
(***************************************************************************)
\* a call of op answered with ret was made before call i
Before(i, op, ret) == \E j \in 1..(i - 1) : calls[j].op = op /\ calls[j].ret = ret

\* C30: every status query of a polling loop carries the handle that the
\* submission step of the same invocation produced: Edge asks for the
\* operation id of the Location header of its accepted upload, the Firefox
\* validation loop for the UUID its CreateUpload returned, the Firefox
\* signing loop for the version id its CreateVersion returned; no query is
\* made before that step, and none with another value.
C30_QueriesCarryOwnHandle ==
    /\ \A i \in StatusCalls("edge") :
          /\ calls[i].arg = handle.location
          /\ calls[i].arg \in EdgeOperationIDs
          /\ Before(i, "EdgeUploadUpdate", "accepted")
    /\ \A i \in StatusCalls("validation") :
          /\ calls[i].arg = handle.uuid
          /\ calls[i].arg \in UUIDs
          /\ Before(i, "CreateUpload", "ok")
    /\ \A i \in StatusCalls("signing") :
          /\ calls[i].arg = handle.versionID
          /\ calls[i].arg \in {Itoa(id) : id \in VersionIDs}
          /\ Before(i, "CreateVersion", "ok")
          /\ \A j \in StatusCalls("validation") : j < i /\ calls[j].arg = handle.uuid

\* Sign polls the signing of the second version id after having polled the
\* validation of its upload
C30_Witness ==
    /\ verb = "ffSign"
    /\ handle.versionID = Itoa(8)
    /\ StatusCalls("validation") # {}
    /\ Cardinality(StatusCalls("signing")) = 2

\* Update polls the validation of the second UUID
C30_Witness_UUID ==
    /\ verb = "ffUpdate"
    /\ handle.uuid = "uuid2"
    /\ Cardinality(StatusCalls("validation")) = 2

\* Edge polls the second operation id
C30_Witness_Edge ==
    /\ verb = "edgeUpdate"
    /\ handle.operationID = "op2"
    /\ Cardinality(StatusCalls("edge")) = 2

(***************************************************************************)
(* C31: the sleep between two status queries of the Edge loop.             *)
(***************************************************************************)
\* C31: in the polling loop of Edge Update two consecutive status queries are
\* separated by one sleep of the retry interval, whatever the earlier of the
\* two was answered: the loop has slept once per query but the last, and the
\* later query starts at least one retry interval after the earlier one.
C31_SleepBetweenQueries ==
    verb = "edgeUpdate" =>
        /\ sleeps["edge"] >= Len(polls["edge"]) - 1
        /\ \A k \in 1..(Len(polls["edge"]) - 1) :
              polls["edge"][k + 1].at - polls["edge"][k].at >= EdgeRetryTimeout

(***************************************************************************)
(* C32: a status query that fails ends the loop.                           *)
(***************************************************************************)
\* the status query itself failed: no response, a status code other than
\* 200, or a body that cannot be decoded
QueryFailed(l, reply) ==
    IF l = "edge"
    THEN \/ reply.kind \in {"sendErr", "authErr"}
         \/ /\ reply.kind = "body"
            /\ (reply.code # 200 \/ ~DecodeUploadStatusResponse(reply.body).ok)
    ELSE reply.kind = "err"

\* C32: when a status query of a polling loop fails, the loop returns the
\* error at once: that query is the last one, the loop and the verb have
\* returned an error, and the loop did not sleep after it.
C32_FailedQueryEndsLoop ==
    \A l \in Loops : \A i \in 1..Len(polls[l]) :
        QueryFailed(l, polls[l][i].reply) =>
            /\ i = Len(polls[l])
            /\ loopState[l] = "error"
            /\ pc = "done"
            /\ result.status = "err"
            /\ sleeps[l] <= i - 1

(***************************************************************************)
(* C33: what a successful Sign has done.                                   *)
(***************************************************************************)
\* a version detail reported the file public: to isSigned, or to the
\* signing loop
ReportedPublic ==
    \/ \E j \in CallsOf("VersionDetail") : calls[j].ret = "public"
    \/ \E k \in 1..Len(polls["signing"]) : PhaseAt("signing", k) = "Succeeded"

\* C33: Sign returns success only if in this invocation a version detail
\* reported the file public and, after that, the signed artifact was
\* downloaded (its request answered 200 with the artifact) and written to
\* the output file; Sign never returns nil without that download.
C33_SignSucceedsOnlyAfterDownload ==
    (verb = "ffSign" /\ pc = "done" /\ result.status = "ok") =>
        /\ ReportedPublic
        /\ \E i \in CallsOf("DownloadSignedByURL") : calls[i].ret = "ok"
        /\ files["output"] = "closed"

(***************************************************************************)
(* C34: Sign on a version that the backend lists already.                  *)
(***************************************************************************)
\* hasVersion found the version of the package in the versions list
VersionListed == \E i \in CallsOf("VersionsList") : calls[i].ret = "listed"

\* the answer isSigned received: that of the first version detail request
IsSignedAnswers == {calls[j].ret : j \in {k \in CallsOf("VersionDetail") :
                                            \A o \in CallsOf("VersionDetail") : k <= o}}

NoTokenIssued(e) ==
    /\ e.kind = "token"
    /\ e.reply.kind = "answer"
    /\ (e.reply.status # 200 \/ e.reply.body # "token")

\* C35: with the generation 1 configuration every API request carries a
\* bearer token that is not empty, and a token request that is answered with
\* a status other than 200 or with a body without an access token makes the
\* operation fail before its API request is sent: it is the last entry on
\* the wire and the verb has returned an error.
C35_NoEmptyBearerToken ==
    (verb \in {"edgeUpdate", "edgePublish"} /\ args.edgeGen = APIVersionV1) =>
        /\ \A i \in ApiEntries(wire) :
              /\ BearerTokens(wire[i]) # {}
              /\ 0 \notin BearerTokens(wire[i])
        /\ \A i \in DOMAIN wire :
              NoTokenIssued(wire[i]) =>
                  /\ i = Len(wire)
                  /\ pc = "done"
                  /\ result.status = "err"

(***************************************************************************)
(* C36: the rule the Chrome upload verbs apply to the upload state.        *)
(***************************************************************************)
\* the string of the success state of the API the verb talks to
SuccessStateString(v) == IF v \in ChromeV1Verbs THEN "SUCCESS" ELSE "SUCCEEDED"

\* C36: Insert, Update and the v2 Upload apply one rule to the upload state
\* of the response: the verb returns a result without error only when the
\* state is the success state; for every other state (failure, in progress,
\* not found, unspecified, none at all) it returns an error.
C36_OnlySuccessStateSucceeds ==
    (verb \in ChromeUploadVerbs /\ pc = "done" /\ CallsOf("ChromeUpload") # {}) =>
        LET c == calls[Len(calls)]
        IN  /\ c.op = "ChromeUpload"
            /\ (result.status = "ok") <=> (c.ret = SuccessStateString(verb))
            /\ result.status = "ok" =>
                  result.value.Status = (IF verb \in ChromeV1Verbs THEN UploadStateSuccessV1
                                         ELSE UploadStateSucceededV2)

(***************************************************************************)
(* C37: Edge Publish.                                                      *)
(***************************************************************************)
\* the answers that make Store.PublishStatus return an error
PublishStatusErrors == {"sendErr", "badStatus", "readErr", "badBody", "Failed"}

\* C37: Edge Publish sends one publish request and then one publish status
\* query for the operation id the publish request returned, and never polls
\* or sleeps.  It returns an error when the publish request is not answered
\* 202 with a Location, when the status query fails or is not answered 200,
\* and when the status is Failed; otherwise it returns the status response
\* as it is, whatever the status says, InProgress included.
C37_PublishAsksOnce ==
    verb = "edgePublish" =>
        /\ Cardinality(CallsOf("EdgePublishExtension")) <= 1
        /\ Cardinality(CallsOf("EdgePublishStatus")) <= 1
        /\ \A l \in Loops : polls[l] = <<>> /\ sleeps[l] = 0 /\ loopState[l] = "idle"
        /\ now = 0
        /\ \A i \in CallsOf("EdgePublishStatus") :
              /\ calls[i].arg = handle.location
              /\ calls[i].arg \in EdgeOperationIDs
              /\ Before(i, "EdgePublishExtension", "accepted")
        /\ (pc # "start" /\ handle.location = "") =>
              /\ pc = "done"
              /\ result.status = "err"
              /\ result.err.step = "PublishExtension"
              /\ CallsOf("EdgePublishStatus") = {}
        /\ (pc = "done" /\ CallsOf("EdgePublishStatus") # {}) =>
              LET c == calls[Len(calls)]
              IN  /\ c.op = "EdgePublishStatus"
                  /\ IF c.ret \in PublishStatusErrors
                     THEN result.status = "err" /\ result.err.step = "PublishStatus"
                     ELSE /\ result.status = "ok"
                          /\ result.value.Status = c.ret
        /\ (pc = "done" /\ result.status = "ok") =>
              /\ Cardinality(CallsOf("EdgePublishExtension")) = 1
              /\ Cardinality(CallsOf("EdgePublishStatus")) = 1

\* Publish has returned the response of its one status query, which says
\* InProgress
C37_Witness ==
    /\ verb = "edgePublish"
    /\ pc = "done"
    /\ result.status = "ok"
    /\ result.value.Status = "InProgress"
    /\ Len(calls) = 2

\* Publish has returned the error of a status that says Failed
C37_Witness_Failed ==
    /\ verb = "edgePublish"
    /\ pc = "done"
    /\ result.status = "err"
    /\ calls # <<>>
    /\ calls[Len(calls)].ret = "Failed"

(***************************************************************************)
(* C38: a manifest without id or version.                                  *)
(***************************************************************************)
\* C38: when Insert (with a source archive), Update or Sign returns the
\* error of a manifest that cannot be read or lacks the extension id or the
\* version, the invocation has made no backend call at all: the call log and
\* the wire are empty and no file was opened.
C38_ManifestErrorBeforeAnyCall ==
    (/\ verb \in {"ffInsert", "ffUpdate", "ffSign"}
     /\ result.status = "err"
     /\ result.err.kind = "manifest") =>
        /\ ~extDataFromFile(args.manifest).ok
        /\ calls = <<>>
        /\ wire = <<>>
        /\ \A f \in FileRoles : files[f] = "unopened"

(***************************************************************************)
(* C39: JSON encoding and decoding of the status enums.                    *)
(* The codec is pure; it is run on its own, from every defined value and   *)
(* from every string of interest, under the specification CodecSpec.       *)
(***************************************************************************)
Enums == {"Status", "UploadStateV1", "UploadStateV2", "ItemState"}

\* the defined values of each enum, the zero one included
EnumValues(e) ==
    CASE e = "Status" -> StatusInvalid .. StatusFailed
      [] e = "UploadStateV1" -> UploadStateInvalidV1 .. UploadStateNotFoundV1
      [] e = "UploadStateV2" -> UploadStateInvalidV2 .. UploadStateNotFoundV2
      [] e = "ItemState" -> ItemStateUnspecified .. ItemStateCancelled

\* String of the enum, which MarshalJSON hands to json.Marshal
EnumString(e, v) ==
    CASE e = "Status" -> StatusString(v)
      [] e = "UploadStateV1" -> UploadStateV1String(v)
      [] e = "UploadStateV2" -> UploadStateV2String(v)
      [] e = "ItemState" -> ItemStateString(v)

\* UnmarshalJSON of the enum on the string json.Unmarshal read
EnumUnmarshalJSON(e, str) ==
    CASE e = "Status" -> StatusUnmarshalJSON(str)
      [] e = "UploadStateV1" -> UploadStateV1UnmarshalJSON(str)
      [] e = "UploadStateV2" -> UploadStateV2UnmarshalJSON(str)
      [] e = "ItemState" -> ItemStateUnmarshalJSON(str)

\* the strings offered to the decoders: every encoding of a defined value of
\* any of the enums, and two strings no enum encodes to
EnumStrings ==
    {EnumString(e, v) : <<e, v>> \in UNION {{e} \X EnumValues(e) : e \in Enums}}
        \cup {"", "Bogus"}

\* a run of the codec starts from a value (encode, then decode) or from a
\* string (decode, then encode what was accepted)
CodecInputs ==
    UNION {[enum : {e}, from : {"value"}, val : EnumValues(e), str : {""}] : e \in Enums}
        \cup [enum : Enums, from : {"string"}, val : {0}, str : EnumStrings]

CodecInit ==
    /\ verb = "codec"
    /\ args \in CodecInputs
    /\ pc = "start"
    /\ now = 0
    /\ startTime = 0
    /\ calls = <<>>
    /\ polls = [l \in Loops |-> <<>>]
    /\ sleeps = [l \in Loops |-> 0]
    /\ loopState = [l \in Loops |-> "idle"]
    /\ loopEntered = [l \in Loops |-> 0]
    /\ loopLeft = [l \in Loops |-> 0]
    /\ handle = [operationID |-> "", uuid |-> "", versionID |-> "", downloadURL |-> "",
                 location |-> "", accessToken |-> 0]
    /\ wire = <<>>
    /\ files = [f \in FileRoles |-> "unopened"]
    /\ result = [ok |-> TRUE, val |-> args.val, str |-> args.str]

\* MarshalJSON of the value held: never fails, the text is String()
MarshalJSON ==
    /\ verb = "codec"
    /\ \/ pc = "start" /\ args.from = "value"
       \/ pc = "unmarshalled" /\ args.from = "string"
    /\ result' = [result EXCEPT !.str = EnumString(args.enum, result.val)]
    /\ pc' = IF args.from = "value" THEN "marshalled" ELSE "done"
    /\ UNCHANGED <<verb, args, now, startTime, calls, polls, sleeps, loopState,
                   loopEntered, loopLeft, handle, files, wire>>

\* UnmarshalJSON of the text held: an unknown string is an error and ends
\* the run, the receiver is left as it was
UnmarshalJSON ==
    /\ verb = "codec"
    /\ \/ pc = "start" /\ args.from = "string"
       \/ pc = "marshalled" /\ args.from = "value"
    /\ LET u == EnumUnmarshalJSON(args.enum, result.str)
       IN  /\ result' = [result EXCEPT !.ok = u.ok,
                                       !.val = IF u.ok THEN u.val ELSE 0]
           /\ pc' = IF args.from = "string" /\ u.ok THEN "unmarshalled" ELSE "done"
    /\ UNCHANGED <<verb, args, now, startTime, calls, polls, sleeps, loopState,
                   loopEntered, loopLeft, handle, files, wire>>

CodecNext ==
    \/ MarshalJSON
    \/ UnmarshalJSON

CodecSpec == CodecInit /\ [][CodecNext]_vars

\* C39: for each status enum (Edge Status, Chrome UploadStateV1,
\* UploadStateV2 and ItemState) JSON encoding and decoding are mutually
\* inverse on every defined value, the zero one included: decoding the
\* encoding of a value yields that value, and every string the decoder
\* accepts is encoded back to the same string.
C39_EnumJSONRoundTrip ==
    (verb = "codec" /\ pc = "done") =>
        /\ args.from = "value" => (result.ok /\ result.val = args.val)
        /\ (args.from = "string" /\ result.ok) => result.str = args.str

====
